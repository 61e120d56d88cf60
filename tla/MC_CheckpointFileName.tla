------------------------ MODULE MC_CheckpointFileName ------------------------
(* CheckpointFileName with uint32_t scaled to 0 .. 19 and int32_t to       *)
(* -10 .. 9: two-digit numbers overflow the signed type and three-digit   *)
(* ones the unsigned type.  The enumerated names use the digits 0 and 1   *)
(* and up to six characters after the first, so that gs_cp_111_0.dat is  *)
(* among them: a name of the exact form rejected only for its overflow.  *)
EXTENDS CheckpointFileName

MCUIntLimit == 20
MCIntLimit == 10
MCNameDigits == {0, 1}
MCMaxMiddle == 6
=============================================================================
