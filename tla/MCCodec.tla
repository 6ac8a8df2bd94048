------------------------------- MODULE MCCodec -------------------------------
\* Superblocks and streams about every limit for TLC.
EXTENDS Codec

MCOptions == [Uncompressed: BOOLEAN, Compressor: 0..7]

Superblocks(magic, version, sizes, logs, comps, options) ==
  [magic: magic, version: version, BlockSize: sizes, BlockLog: logs, Compression: comps,
   options: options]

\* Any geometry with one codec, any codec with one geometry, and images that end
\* in the superblock or in the options.
MCForeign ==
  [len: {11}, optSize: {0},
   sb: Superblocks(BOOLEAN, {<<4, 0>>, <<4, 1>>, <<3, 0>>}, {0, 1, 2, 3, 4, 8, 16},
                   {0, 1, 2, 3, 4, 32, 40}, {1}, {FALSE})]
  \cup [len: {11}, optSize: {1}, sb: Superblocks({TRUE}, {<<4, 0>>}, {2}, {1}, 0..7, BOOLEAN)]
  \cup [len: {0, 3, 4, 5, 6, 7, 9, 11}, optSize: 0..(MetaBlockMax + 1),
        sb: Superblocks({TRUE}, {<<4, 0>>}, {2}, {1}, {1}, {TRUE})]

\* Any stream in one byte, and a sound one in any length about the limits.
MCStreams ==
  [size: {1}, head: BOOLEAN, single: BOOLEAN, len: 0..10, end: {"ok", "bad"}]
  \cup [size: 0..9, head: {TRUE}, single: {TRUE}, len: {4}, end: {"ok"}]
=============================================================================
