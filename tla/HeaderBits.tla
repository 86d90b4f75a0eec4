------------------------------ MODULE HeaderBits ------------------------------
(***************************************************************************)
(* What a block of Deflate begins with, and what it is made of: the code   *)
(* lengths as they are read and written (LevelTableCode), and the readers  *)
(* and writers of bits under them (BitIo), any one of them at a time.  The *)
(* lengths are modelled over whole numbers, whatever the bits they take.   *)
(***************************************************************************)
EXTENDS BitIo, LevelTableCode

VARIABLE part    \* "bits", "levels"

headerVars == <<ioVars, levelVars, part>>

HeaderInit ==
  /\ part \in {"bits", "levels"}
  /\ IoInit
  /\ part = "levels" => kind = "writer" /\ endian = "LE" /\ size = 0
  /\ side \in IF part = "bits" THEN {"decoder"} ELSE {"decoder", "encoder"}
  /\ LevelInit
  /\ part = "bits" => mType = "Deflate32"

BitsStep == part = "bits" /\ IoNext /\ UNCHANGED <<levelVars, part>>
LevelsStep == part = "levels" /\ LevelNext /\ UNCHANGED <<ioVars, part>>

HeaderNext == BitsStep \/ LevelsStep

HeaderSpec == HeaderInit /\ [][HeaderNext]_headerVars

=============================================================================
