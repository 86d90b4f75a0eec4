------------------------- MODULE MCDeflateDecoderMT -------------------------
\* Instances of DeflateDecoderMT for TLC.  All the bounds are constants of the
\* specification; the .cfg files give them their values.
EXTENDS DeflateDecoderMT
=============================================================================
