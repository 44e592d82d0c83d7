------------------------------ MODULE Settings ------------------------------
(***************************************************************************)
(* The network settings: NETWORK_SETTINGS (net_commands.c) saves them in a *)
(* page of the EEPROM and resets the core; the next boot reads them        *)
(* (settings.c, eeprom.c).  Power may fail at any step.                    *)
(*                                                                         *)
(* With automatic programming off, the words stored to the page go to the  *)
(* page register, and Chip_EEPROM_EraseProgramPage copies the register to  *)
(* the cells.  The hardware is taken to change a word at a time: a power   *)
(* failure during the copy leaves any of the words as they were.           *)
(***************************************************************************)
EXTENDS Integers

CONSTANTS
  Words,     \* values a word of the settings may have
  Default,   \* settings_defaults()
  MaxSaves   \* bound: saves begun in a behaviour

Fields == {"gw", "ipaddr", "netmask", "port"}

ASSUME WordsAssumption == Words \subseteq Nat /\ 0 \in Words
ASSUME DefaultAssumption ==
  Default \in [Fields -> Nat] /\ \A f \in Fields : Default[f] # 0
ASSUME BoundAssumption == MaxSaves \in Nat

VARIABLES
  pc,        \* where the TCP task is in the save, or off
  page,      \* the cells of the page
  register,  \* the page register
  used,      \* the settings the boot has given to lwIP and to the server
  new,       \* the settings of the last save, done or not
  old,       \* what the page held when it began
  done,      \* it was done
  saves      \* saves begun so far

vars == <<pc, page, register, used, new, old, done, saves>>
-----------------------------------------------------------------------------
AllSettings == [Fields -> Words]
Empty == [f \in Fields |-> 0]

\* Mutant of Effective: the defaults are for a page with nothing in it.
EffectiveIfAny(s) == IF \A f \in Fields : s[f] = 0 THEN Default ELSE s

\* settings_read: a field that is zero means that nothing was saved.
Effective(s) == IF \E f \in Fields : s[f] = 0 THEN Default ELSE s

Init ==
  /\ pc = "off"
  /\ page \in AllSettings
  /\ register = Empty
  /\ used = Default
  /\ new = page /\ old = page /\ done = FALSE
  /\ saves = 0

\* vStackIpSetup reads the settings before it starts the server.
Boot ==
  /\ pc = "off"
  /\ used' = Effective(page)
  /\ pc' = "serving"
  /\ UNCHANGED <<page, register, new, old, done, saves>>

\* NETWORK_SETTINGS with every field there and a port that is not 0.  An address
\* that does not parse leaves its word of the struct as it finds it, so the
\* words of s are any.
Receive ==
  /\ pc = "serving" /\ saves < MaxSaves
  /\ new' \in {s \in AllSettings : s["port"] # 0}
  /\ old' = page /\ done' = FALSE
  /\ pc' = "erase"
  /\ saves' = saves + 1
  /\ UNCHANGED <<page, register, used>>

\* Mutant of EraseWords: the page is not erased before it is written.
EraseForgotten ==
  /\ pc = "erase"
  /\ pc' = "write"
  /\ UNCHANGED <<page, register, used, new, old, done, saves>>

\* EEPROM_Erase: the words, and then the page.
EraseWords ==
  /\ pc = "erase"
  /\ register' = Empty
  /\ pc' = "program_empty"
  /\ UNCHANGED <<page, used, new, old, done, saves>>

ErasePage ==
  /\ pc = "program_empty"
  /\ page' = register
  /\ pc' = "write"
  /\ UNCHANGED <<register, used, new, old, done, saves>>

\* EEPROM_Write: the words, and then the page.
WriteWords ==
  /\ pc = "write"
  /\ register' = new
  /\ pc' = "program_new"
  /\ UNCHANGED <<page, used, new, old, done, saves>>

WritePage ==
  /\ pc = "program_new"
  /\ page' = register
  /\ pc' = "saved" /\ done' = TRUE
  /\ UNCHANGED <<register, used, new, old, saves>>

\* Chip_RGU_TriggerReset
Reset ==
  /\ pc = "saved"
  /\ pc' = "off" /\ register' = Empty
  /\ UNCHANGED <<page, used, new, old, done, saves>>

\* What may be in the cells when power fails: during a copy, some of it.
Torn ==
  IF pc \in {"program_empty", "program_new"}
  THEN {s \in [Fields -> Words] : \A f \in Fields : s[f] \in {page[f], register[f]}}
  ELSE {page}

PowerFails ==
  /\ pc # "off"
  /\ page' \in Torn
  /\ pc' = "off" /\ register' = Empty
  /\ UNCHANGED <<used, new, old, done, saves>>

Next ==
  \/ Boot \/ Receive \/ EraseWords \/ ErasePage \/ WriteWords \/ WritePage
  \/ Reset \/ PowerFails

Spec == Init /\ [][Next]_vars
-----------------------------------------------------------------------------
Pcs == {"off", "serving", "erase", "program_empty", "write", "program_new", "saved"}

TypeOK ==
  /\ pc \in Pcs
  /\ page \in AllSettings /\ register \in AllSettings
  /\ new \in AllSettings /\ old \in AllSettings
  /\ used \in AllSettings \cup {Default}
  /\ done \in BOOLEAN /\ saves \in Nat

\* However often power failed, the board comes up with the settings of the last save
\* or, when that save was not done, with those it had before it or the defaults:
\* never with an address of one and a mask of the other (settings_save against
\* settings_read).
NeverMixed ==
  pc = "serving" =>
    used \in IF done THEN {Effective(new)}
             ELSE {Effective(new), Effective(old), Default}

-----------------------------------------------------------------------------
\* The cells hold a part of the old settings or a part of the new ones and nothing
\* else, and the register what the step about to copy it needs.
PageInv ==
  /\ \/ \A f \in Fields : page[f] \in {0, old[f]}
     \/ \A f \in Fields : page[f] \in {0, new[f]}
  /\ pc \in {"erase", "program_empty"} => \A f \in Fields : page[f] \in {0, old[f]}
  /\ pc = "program_empty" => register = Empty
  /\ pc = "write" => page = Empty
  /\ pc = "program_new" => page = Empty /\ register = new
  /\ pc = "saved" => done
  /\ done => page = new /\ pc \in {"saved", "off", "serving"}

\* The inductive invariant: it contains NeverMixed.
SettingsInv == TypeOK /\ PageInv /\ NeverMixed
=============================================================================
