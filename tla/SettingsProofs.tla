--------------------------- MODULE SettingsProofs ---------------------------
(***************************************************************************)
(* The settings survive any failure of the power whole: SettingsInv is     *)
(* inductive.                                                              *)
(***************************************************************************)
EXTENDS Settings, TLAPS

LEMMA EmptyType == Empty \in AllSettings
BY WordsAssumption DEF Empty, AllSettings

\* What a page that holds a part of some settings comes up as.
LEMMA PartWhole ==
  ASSUME NEW s \in AllSettings, NEW p \in AllSettings,
         \A f \in Fields : p[f] \in {0, s[f]}
  PROVE  Effective(p) \in {Effective(s), Default}
<1>1. CASE \E f \in Fields : p[f] = 0
  BY <1>1 DEF Effective
<1>2. CASE \A f \in Fields : p[f] # 0
  <2>1. \A f \in Fields : p[f] = s[f]
    BY <1>2
  <2>2. p = s
    BY <2>1 DEF AllSettings
  <2> QED BY <2>2
<1> QED BY <1>1, <1>2

LEMMA SettingsInit == Init => SettingsInv
<1> SUFFICES ASSUME Init PROVE SettingsInv OBVIOUS
<1>1. TypeOK
  BY EmptyType, BoundAssumption DEF Init, TypeOK, Pcs
<1>2. PageInv
  BY DEF Init, PageInv
<1>3. NeverMixed
  BY DEF Init, NeverMixed
<1> QED BY <1>1, <1>2, <1>3 DEF SettingsInv

\* One step per action; NeverMixed is at stake in Boot only, and the page when it is
\* copied or the power fails meanwhile.
LEMMA SettingsNext == SettingsInv /\ [Next]_vars => SettingsInv'
<1> SUFFICES ASSUME SettingsInv, [Next]_vars PROVE SettingsInv' OBVIOUS
<1>i. TypeOK /\ PageInv /\ NeverMixed
  BY DEF SettingsInv
<1>1. CASE Boot
  <2>1. TypeOK'
    BY <1>i, <1>1 DEF Boot, TypeOK, Pcs, Effective
  <2>2. PageInv'
    BY <1>i, <1>1 DEF Boot, PageInv
  <2>3. Effective(page) \in {Effective(new), Effective(old), Default}
    BY <1>i, PartWhole DEF TypeOK, PageInv
  <2>4. done => page = new
    BY <1>i DEF PageInv
  <2>5. NeverMixed'
    BY <1>1, <2>3, <2>4 DEF Boot, NeverMixed, Effective
  <2> QED BY <2>1, <2>2, <2>5 DEF SettingsInv
<1>2. CASE Receive
  <2>1. new' \in AllSettings /\ saves' \in Nat
    BY <1>i, <1>2 DEF Receive, TypeOK
  <2>2. TypeOK'
    BY <1>i, <1>2, <2>1 DEF Receive, TypeOK, Pcs
  <2>3. PageInv' /\ NeverMixed'
    BY <1>2 DEF Receive, PageInv, NeverMixed
  <2> QED BY <2>2, <2>3 DEF SettingsInv
<1>3. CASE EraseWords
  <2>1. TypeOK'
    BY <1>i, <1>3, EmptyType DEF EraseWords, TypeOK, Pcs
  <2>2. \A f \in Fields : page[f] \in {0, old[f]}
    BY <1>i, <1>3 DEF PageInv, EraseWords
  <2>3. PageInv' /\ NeverMixed'
    BY <1>i, <1>3, <2>2 DEF EraseWords, PageInv, NeverMixed
  <2> QED BY <2>1, <2>3 DEF SettingsInv
<1>4. CASE ErasePage
  <2>1. TypeOK'
    BY <1>i, <1>4 DEF ErasePage, TypeOK, Pcs
  <2>2. page' = Empty
    BY <1>i, <1>4 DEF ErasePage, PageInv
  <2>3. PageInv' /\ NeverMixed'
    BY <1>i, <1>4, <2>2 DEF ErasePage, PageInv, NeverMixed, Empty
  <2> QED BY <2>1, <2>3 DEF SettingsInv
<1>5. CASE WriteWords
  <2>1. TypeOK'
    BY <1>i, <1>5 DEF WriteWords, TypeOK, Pcs
  <2>2. PageInv' /\ NeverMixed'
    BY <1>i, <1>5 DEF WriteWords, PageInv, NeverMixed
  <2> QED BY <2>1, <2>2 DEF SettingsInv
<1>6. CASE WritePage
  <2>1. TypeOK'
    BY <1>i, <1>6 DEF WritePage, TypeOK, Pcs
  <2>2. page' = new /\ new' = new
    BY <1>i, <1>6 DEF WritePage, PageInv
  <2>3. PageInv' /\ NeverMixed'
    BY <1>6, <2>2 DEF WritePage, PageInv, NeverMixed
  <2> QED BY <2>1, <2>3 DEF SettingsInv
<1>7. CASE Reset
  <2>1. TypeOK'
    BY <1>i, <1>7, EmptyType DEF Reset, TypeOK, Pcs
  <2>2. PageInv' /\ NeverMixed'
    BY <1>i, <1>7 DEF Reset, PageInv, NeverMixed
  <2> QED BY <2>1, <2>2 DEF SettingsInv
<1>8. CASE PowerFails
  <2>1. page' \in AllSettings
    BY <1>i, <1>8 DEF PowerFails, Torn, TypeOK, AllSettings
  <2>2. TypeOK'
    BY <1>i, <1>8, <2>1, EmptyType DEF PowerFails, TypeOK, Pcs
  <2>3. \/ \A f \in Fields : page'[f] \in {0, old[f]}
        \/ \A f \in Fields : page'[f] \in {0, new[f]}
    <3>1. CASE pc = "program_empty"
      BY <1>i, <1>8, <3>1 DEF PowerFails, Torn, PageInv, Empty
    <3>2. CASE pc = "program_new"
      BY <1>i, <1>8, <3>2 DEF PowerFails, Torn, PageInv, Empty
    <3>3. CASE pc \notin {"program_empty", "program_new"}
      BY <1>i, <1>8, <3>3 DEF PowerFails, Torn, PageInv
    <3> QED BY <3>1, <3>2, <3>3
  <2>4. done => page' = page
    BY <1>i, <1>8 DEF PowerFails, Torn, PageInv
  <2>5. PageInv' /\ NeverMixed'
    BY <1>i, <1>8, <2>3, <2>4 DEF PowerFails, PageInv, NeverMixed
  <2> QED BY <2>2, <2>5 DEF SettingsInv
<1>9. CASE UNCHANGED vars
  BY <1>9 DEF vars, SettingsInv, TypeOK, PageInv, NeverMixed
<1> QED
  BY <1>1, <1>2, <1>3, <1>4, <1>5, <1>6, <1>7, <1>8, <1>9 DEF Next

\* The cells and the register hold what settings_save has put there, and nothing of
\* two saves at once.
THEOREM SettingsInvariant == Spec => []SettingsInv
<1>1. SettingsInv /\ [Next]_vars => SettingsInv'
  BY SettingsNext
<1> QED BY <1>1, SettingsInit, PTL DEF Spec

\* No failure of the power makes the board come up with mixed settings
\* (settings_save, settings_read), for any words and any number of saves.
THEOREM SettingsWhole == Spec => []NeverMixed
<1>1. SettingsInv => NeverMixed
  BY DEF SettingsInv
<1> QED BY <1>1, SettingsInvariant, PTL
=============================================================================
