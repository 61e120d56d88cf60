------------------------- MODULE CheckpointFileName -------------------------
(***************************************************************************)
(* CheckpointFile::checkFileName (src/server/checkpoint_file.cpp), which  *)
(* tells whether a directory entry is a checkpoint file and extracts its  *)
(* partition-group id and split id, and the names open() gives the files.*)
(*                                                                         *)
(* A name is a sequence of characters.  The prefix "gs_cp_" and the       *)
(* extension ".dat" are single tokens Prefix and Ext (neither contains    *)
(* the other, a digit, a sign, a blank or '_'); the extension's first     *)
(* character '.' is what ends a number before it.  The other characters  *)
(* are the decimal digits, '_', '+', '-' and a blank.                    *)
(* The numbers are read by std::istream with libstdc++'s num_get: leading *)
(* blanks are skipped, one '+' or '-' is taken, then the longest run of  *)
(* digits; no digit or a value past the type's range sets failbit, and a *)
(* '-' before an unsigned value negates it modulo 2^32.  UIntLimit and   *)
(* IntLimit scale 2^32 (uint32_t pgId) and 2^31 (int32_t splitId) down.  *)
(***************************************************************************)
EXTENDS Integers, Sequences, SequencesExt

CONSTANTS
  UIntLimit,    \* one past the largest uint32_t value
  IntLimit,     \* int32_t values lie in -IntLimit .. IntLimit - 1
  NameDigits,   \* the digits the enumerated names are made of
  MaxMiddle,    \* bound on the characters after the first one
  UndefPgId     \* UNDEF_PARTITIONGROUPID

ASSUME NameAssumption ==
  /\ UIntLimit \in Nat \ {0}
  /\ IntLimit \in Nat \ {0}
  /\ NameDigits \subseteq 0..9
  /\ MaxMiddle \in Nat

Prefix == "gs_cp_"
Ext == ".dat"
Blank == " "
DigitChar == << "0", "1", "2", "3", "4", "5", "6", "7", "8", "9" >>
Digit == Range(DigitChar)
Chars == {DigitChar[d + 1] : d \in NameDigits} \cup {"_", "+", "-", Blank, Ext}

VARIABLES
  name,      \* the fileName argument
  called,    \* checkFileName() has returned
  result,    \* what it returned
  pgId,      \* the pgId out-parameter
  splitId    \* the splitId out-parameter

vars == <<name, called, result, pgId, splitId>>

-----------------------------------------------------------------------------
\* The decimal digits of n, as `ss << n' writes them.
DecimalOf[n \in Nat] ==
  IF n < 10 THEN << DigitChar[n + 1] >>
  ELSE DecimalOf[n \div 10] \o << DigitChar[(n % 10) + 1] >>

\* The name open() gives split file `index' of partition group `pg'.
FileName(pg, index) ==
  << Prefix >> \o DecimalOf[pg] \o << "_" >> \o DecimalOf[index] \o << Ext >>

\* The first position at or after i whose character is not in T (i if i is
\* already past the end of the name).
NextNot(s, i, T) ==
  IF i > Len(s) THEN i
  ELSE Min({j \in i..(Len(s) + 1) : j > Len(s) \/ s[j] \notin T})

\* The value of a run of decimal digits.
Value(ds) ==
  FoldLeft(LAMBDA a, d : 10 * a + (CHOOSE v \in 0..9 : DigitChar[v + 1] = d), 0, ds)

(***************************************************************************)
(* `iss >> v' for an integer v read from position i: the position after  *)
(* the number, whether failbit is set, and the value stored.             *)
(***************************************************************************)
\* Mutant: a '-' before an unsigned value not wrapped modulo 2^32.
ExtractNoUnsignedWrap(s, i, signed) ==
  LET j == NextNot(s, i, {Blank})
      sign == IF j <= Len(s) THEN s[j] ELSE Blank
      neg == sign = "-"
      k == IF sign \in {"+", "-"} THEN j + 1 ELSE j
      e == NextNot(s, k, Digit)
      mag == Value(SubSeq(s, k, e - 1))
      max == IF ~signed THEN UIntLimit - 1
             ELSE IF neg THEN IntLimit ELSE IntLimit - 1
  IN [fail |-> e = k \/ mag > max,
      next |-> e,
      val  |-> IF neg THEN -mag ELSE mag]

\* Mutant: the largest value of the type taken for an overflow.
ExtractMaxExclusive(s, i, signed) ==
  LET j == NextNot(s, i, {Blank})
      sign == IF j <= Len(s) THEN s[j] ELSE Blank
      neg == sign = "-"
      k == IF sign \in {"+", "-"} THEN j + 1 ELSE j
      e == NextNot(s, k, Digit)
      mag == Value(SubSeq(s, k, e - 1))
      max == IF ~signed THEN UIntLimit - 1
             ELSE IF neg THEN IntLimit ELSE IntLimit - 1
  IN [fail |-> e = k \/ mag >= max,
      next |-> e,
      val  |-> IF ~neg THEN mag
               ELSE IF signed THEN -mag ELSE (UIntLimit - mag) % UIntLimit]

Extract(s, i, signed) ==
  LET j == NextNot(s, i, {Blank})
      sign == IF j <= Len(s) THEN s[j] ELSE Blank
      neg == sign = "-"
      k == IF sign \in {"+", "-"} THEN j + 1 ELSE j
      e == NextNot(s, k, Digit)
      mag == Value(SubSeq(s, k, e - 1))
      max == IF ~signed THEN UIntLimit - 1
             ELSE IF neg THEN IntLimit ELSE IntLimit - 1
  IN [fail |-> e = k \/ mag > max,
      next |-> e,
      val  |-> IF ~neg THEN mag
               ELSE IF signed THEN -mag ELSE (UIntLimit - mag) % UIntLimit]

\* `iss >> c' for a char c: skips blanks and takes one character.
ExtractChar(s, i) ==
  LET j == NextNot(s, i, {Blank}) IN
  [fail |-> j > Len(s), next |-> j + 1, val |-> IF j <= Len(s) THEN s[j] ELSE Blank]

\* fileName.rfind(gsCpFileExtension): the last position of Ext, or 0.
LastExt(s) == LET P == {j \in 1..Len(s) : s[j] = Ext} IN
              IF P = {} THEN 0 ELSE Max(P)

(***************************************************************************)
(* checkFileName(fileName, pgId, splitId): the out-parameters are set to *)
(* UNDEF_PARTITIONGROUPID and -1; the name must start with the prefix and *)
(* end with the only trailing extension; `iss >> num1 >> c >> num2' from  *)
(* just after the prefix must not fail, c must be '_' and the stream must *)
(* stand at the extension; then the out-parameters get the two numbers.  *)
(***************************************************************************)
Parse(s) ==
  LET n1 == Extract(s, 2, FALSE)
      c  == ExtractChar(s, n1.next)
      n2 == Extract(s, c.next, TRUE)
  IN [ok |-> /\ Len(s) > 0 /\ s[1] = Prefix
             /\ LastExt(s) # 0 /\ LastExt(s) = Len(s)
             /\ ~(n1.fail \/ c.fail \/ n2.fail)
             /\ c.val = "_"
             /\ n2.next = LastExt(s),
      pg |-> n1.val,
      split |-> n2.val]

CheckFileName ==
  /\ ~called
  /\ called' = TRUE
  /\ LET r == Parse(name) IN
       /\ result' = r.ok
       /\ pgId' = IF r.ok THEN r.pg ELSE UndefPgId
       /\ splitId' = IF r.ok THEN r.split ELSE -1
  /\ UNCHANGED name

-----------------------------------------------------------------------------
\* The names of the files open() creates, with pgId and split slot in range.
FileNames == {FileName(pg, i) : pg \in 0..(UIntLimit - 1), i \in 0..(IntLimit - 1)}

\* Every short name over the characters, after the prefix or a blank, and
\* every file name open() creates.
Names ==
  {<< h >> \o m : h \in {Prefix, Blank}, m \in SeqOf(Chars, MaxMiddle)}
    \cup FileNames

Init ==
  /\ name \in Names
  /\ called = FALSE
  /\ result = FALSE
  /\ pgId = UndefPgId
  /\ splitId = -1

Next == CheckFileName

Spec == Init /\ [][Next]_vars

-----------------------------------------------------------------------------
TypeOK ==
  /\ called \in BOOLEAN
  /\ result \in BOOLEAN
  /\ pgId \in (0..(UIntLimit - 1)) \cup {UndefPgId}
  /\ splitId \in -IntLimit..(IntLimit - 1)

(***************************************************************************)
(* The exact form of spec section 4.7: the prefix, a non-negative decimal *)
(* number, one '_', a decimal number with an optional '-', the extension *)
(* and nothing else, with both numbers in the range of their types.      *)
(***************************************************************************)
ExactForm(s) ==
  \E u \in 3..(Len(s) - 2) :
    LET d1 == SubSeq(s, 2, u - 1)
        neg == s[u + 1] = "-"
        d2 == SubSeq(s, IF neg THEN u + 2 ELSE u + 1, Len(s) - 1)
    IN /\ s[1] = Prefix /\ s[u] = "_" /\ s[Len(s)] = Ext
       /\ Len(d2) > 0
       /\ \A k \in DOMAIN d1 : d1[k] \in Digit
       /\ \A k \in DOMAIN d2 : d2[k] \in Digit
       /\ Value(d1) < UIntLimit
       /\ Value(d2) < (IF neg THEN IntLimit + 1 ELSE IntLimit)

(***************************************************************************)
(* Spec invariant 7: checkFileName() recognises the name open() gives    *)
(* every split file and returns exactly its partition group and slot, so *)
(* that recovery finds each file at its slot.                             *)
(***************************************************************************)
RoundTrip ==
  called /\ name \in FileNames => result /\ FileName(pgId, splitId) = name

(***************************************************************************)
(* checkFileName() accepts exactly the names of the form of spec section *)
(* 4.7; "any deviation returns not-a-checkpoint-file".                    *)
(***************************************************************************)
AcceptsExactForm ==
  called => (result <=> ExactForm(name))

=============================================================================
