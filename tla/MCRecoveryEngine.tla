-------------------------- MODULE MCRecoveryEngine --------------------------
(***************************************************************************)
(* RecoveryEngine on a 7-byte image whose partition starts at byte 1, with *)
(* 2-byte sectors and a 4-bit u64: every layout of up to two segments and  *)
(* every list of up to two legacy regions, drawn from regions that are     *)
(* fine, cross the end of the image, lack an offset or a sector range, or  *)
(* overflow.                                                               *)
(***************************************************************************)
EXTENDS RecoveryEngine

Reg(start, end, offset) ==
  [sectorStart |-> start, sectorEnd |-> end, offset |-> offset]

Regions == {Reg(0, 0, None), Reg(1, 2, None), Reg(2, 3, None), Reg(1, 1, 2),
            Reg(None, None, 0), Reg(None, 1, None), Reg(2, 1, 0), Reg(0, 15, 0),
            Reg(0, 1, 14), Reg(8, 8, None)}

Segments ==
  [kind : {"physical"}, clusters : {1, 2}, region : Regions]
    \cup [kind : {"sparse"}, clusters : {1, 8}]
    \cup [kind : {"inline"}, bytes : {<< >>, <<-2, -3, -4>>}]

UpToTwo(S) == {<< >>} \cup {<<a>> : a \in S} \cup {<<a, b>> : a, b \in S}

(* More bytes than a word can count. *)
ThreeTimes == [k \in 1..3 |-> Reg(0, 2, None)]

MCEntries ==
  [realSize : {None, 0, 1, 3, 15}, bytesPerCluster : {0, 2},
   segments : UpToTwo(Segments), regions : {<< >>}]
  \cup
  [realSize : {None, 0, 1, 3, 5}, bytesPerCluster : {0},
   segments : {<< >>}, regions : UpToTwo(Regions) \cup {ThreeTimes}]
=============================================================================
