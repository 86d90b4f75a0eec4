---------------------------- MODULE MCHeaderBits ----------------------------
\* Instances of HeaderBits for TLC.
EXTENDS HeaderBits

=============================================================================
