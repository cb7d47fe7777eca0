---------------------------- MODULE DriversProofs ----------------------------
(***************************************************************************)
(* Proofs for the other parts of MCDrivers that are proved: the USB mouse, *)
(* the system call hooks, the atl1c hardware, the character devices and    *)
(* the cut-down atl1c. A lemma's name begins with the instance it is       *)
(* about; the inductive invariant of each part is IInv of its module. One  *)
(* lemma per action, named like it, shows that the action keeps IInv,      *)
(* conjunct by conjunct.                                                   *)
(***************************************************************************)
EXTENDS MCDrivers, SequenceTheorems, TLAPS

(***************************************************************************)
(* The USB mouse (UsbHid)                                                  *)
(***************************************************************************)

LEMMA HidProbe ==
  ASSUME Hid!IInv, Hid!Probe
  PROVE  Hid!IInv'
<1>1. Hid!TypeOK'
  BY HidAssumption DEF Hid!Probe, Hid!IInv, Hid!TypeOK
<1>2. Hid!UsersInv'
  BY HidAssumption DEF Hid!Probe, Hid!IInv, Hid!TypeOK, Hid!UsersInv, Hid!UrbInv, Hid!HasUser
<1>3. Hid!UrbInv'
  BY HidAssumption DEF Hid!Probe, Hid!IInv, Hid!TypeOK, Hid!UsersInv, Hid!UrbInv, Hid!HasUser,
     Hid!OnlyUserIsServed
<1> QED
  BY <1>1, <1>2, <1>3 DEF Hid!IInv

LEMMA HidStart ==
  ASSUME Hid!IInv, Hid!Start
  PROVE  Hid!IInv'
<1>1. Hid!TypeOK'
  BY HidAssumption DEF Hid!Start, Hid!IInv, Hid!TypeOK
<1>2. Hid!UsersInv'
  BY HidAssumption DEF Hid!Start, Hid!IInv, Hid!TypeOK, Hid!UsersInv, Hid!UrbInv, Hid!HasUser
<1>3. Hid!UrbInv'
  BY HidAssumption DEF Hid!Start, Hid!IInv, Hid!TypeOK, Hid!UsersInv, Hid!UrbInv, Hid!HasUser,
     Hid!OnlyUserIsServed
<1> QED
  BY <1>1, <1>2, <1>3 DEF Hid!IInv

LEMMA HidDisconnect ==
  ASSUME Hid!IInv, Hid!Disconnect
  PROVE  Hid!IInv'
<1>1. Hid!TypeOK'
  BY HidAssumption DEF Hid!Disconnect, Hid!IInv, Hid!TypeOK
<1>2. Hid!UsersInv'
  BY HidAssumption DEF Hid!Disconnect, Hid!IInv, Hid!TypeOK, Hid!UsersInv, Hid!UrbInv,
     Hid!HasUser
<1>3. Hid!UrbInv'
  BY HidAssumption DEF Hid!Disconnect, Hid!IInv, Hid!TypeOK, Hid!UsersInv, Hid!UrbInv,
     Hid!HasUser, Hid!OnlyUserIsServed
<1> QED
  BY <1>1, <1>2, <1>3 DEF Hid!IInv

LEMMA HidStopKill ==
  ASSUME Hid!IInv, Hid!StopKill
  PROVE  Hid!IInv'
<1>1. Hid!TypeOK'
  BY HidAssumption DEF Hid!StopKill, Hid!Kill, Hid!IInv, Hid!TypeOK
<1>2. Hid!UsersInv'
  BY HidAssumption DEF Hid!StopKill, Hid!Kill, Hid!IInv, Hid!TypeOK, Hid!UsersInv, Hid!UrbInv,
     Hid!HasUser
<1>3. Hid!UrbInv'
  BY HidAssumption DEF Hid!StopKill, Hid!Kill, Hid!IInv, Hid!TypeOK, Hid!UsersInv, Hid!UrbInv,
     Hid!HasUser, Hid!OnlyUserIsServed
<1> QED
  BY <1>1, <1>2, <1>3 DEF Hid!IInv

LEMMA HidStop ==
  ASSUME Hid!IInv, Hid!Stop
  PROVE  Hid!IInv'
<1>1. Hid!TypeOK'
  BY HidAssumption DEF Hid!Stop, Hid!Killed, Hid!IInv, Hid!TypeOK
<1>2. Hid!UsersInv'
  BY HidAssumption DEF Hid!Stop, Hid!Killed, Hid!IInv, Hid!TypeOK, Hid!UsersInv, Hid!UrbInv,
     Hid!HasUser
<1>3. Hid!UrbInv'
  BY HidAssumption DEF Hid!Stop, Hid!Killed, Hid!IInv, Hid!TypeOK, Hid!UsersInv, Hid!UrbInv,
     Hid!HasUser, Hid!OnlyUserIsServed
<1> QED
  BY <1>1, <1>2, <1>3 DEF Hid!IInv

LEMMA HidFree ==
  ASSUME Hid!IInv, Hid!Free
  PROVE  Hid!IInv'
<1>1. Hid!TypeOK'
  BY HidAssumption DEF Hid!Free, Hid!IInv, Hid!TypeOK
<1>2. Hid!UsersInv'
  BY HidAssumption DEF Hid!Free, Hid!IInv, Hid!TypeOK, Hid!UsersInv, Hid!UrbInv, Hid!HasUser
<1>3. Hid!UrbInv'
  BY HidAssumption DEF Hid!Free, Hid!IInv, Hid!TypeOK, Hid!UsersInv, Hid!UrbInv, Hid!HasUser,
     Hid!OnlyUserIsServed
<1> QED
  BY <1>1, <1>2, <1>3 DEF Hid!IInv

LEMMA HidComplete ==
  ASSUME Hid!IInv, Hid!Complete
  PROVE  Hid!IInv'
<1>1. Hid!TypeOK'
  BY HidAssumption DEF Hid!Complete, Hid!IInv, Hid!TypeOK
<1>2. Hid!UsersInv'
  BY HidAssumption DEF Hid!Complete, Hid!IInv, Hid!TypeOK, Hid!UsersInv, Hid!UrbInv, Hid!HasUser
<1>3. Hid!UrbInv'
  BY HidAssumption DEF Hid!Complete, Hid!IInv, Hid!TypeOK, Hid!UsersInv, Hid!UrbInv,
     Hid!HasUser, Hid!OnlyUserIsServed
<1> QED
  BY <1>1, <1>2, <1>3 DEF Hid!IInv

LEMMA HidIrqIn ==
  ASSUME Hid!IInv, Hid!IrqIn
  PROVE  Hid!IInv'
<1>1. Hid!TypeOK'
  BY HidAssumption DEF Hid!IrqIn, Hid!Submit, Hid!IInv, Hid!TypeOK
<1>2. Hid!UsersInv'
  BY HidAssumption DEF Hid!IrqIn, Hid!Submit, Hid!IInv, Hid!TypeOK, Hid!UsersInv, Hid!UrbInv,
     Hid!HasUser
<1>3. Hid!UrbInv'
  BY HidAssumption DEF Hid!IrqIn, Hid!Submit, Hid!IInv, Hid!TypeOK, Hid!UsersInv, Hid!UrbInv,
     Hid!HasUser, Hid!OnlyUserIsServed
<1> QED
  BY <1>1, <1>2, <1>3 DEF Hid!IInv

LEMMA HidUnplug ==
  ASSUME Hid!IInv, Hid!Unplug
  PROVE  Hid!IInv'
<1>1. Hid!TypeOK'
  BY HidAssumption DEF Hid!Unplug, Hid!IInv, Hid!TypeOK
<1>2. Hid!UsersInv'
  BY HidAssumption DEF Hid!Unplug, Hid!IInv, Hid!TypeOK, Hid!UsersInv, Hid!UrbInv, Hid!HasUser
<1>3. Hid!UrbInv'
  BY HidAssumption DEF Hid!Unplug, Hid!IInv, Hid!TypeOK, Hid!UsersInv, Hid!UrbInv, Hid!HasUser,
     Hid!OnlyUserIsServed
<1> QED
  BY <1>1, <1>2, <1>3 DEF Hid!IInv

LEMMA HidPlug ==
  ASSUME Hid!IInv, Hid!Plug
  PROVE  Hid!IInv'
<1>1. Hid!TypeOK'
  BY HidAssumption DEF Hid!Plug, Hid!IInv, Hid!TypeOK
<1>2. Hid!UsersInv'
  BY HidAssumption DEF Hid!Plug, Hid!IInv, Hid!TypeOK, Hid!UsersInv, Hid!UrbInv, Hid!HasUser
<1>3. Hid!UrbInv'
  BY HidAssumption DEF Hid!Plug, Hid!IInv, Hid!TypeOK, Hid!UsersInv, Hid!UrbInv, Hid!HasUser,
     Hid!OnlyUserIsServed
<1> QED
  BY <1>1, <1>2, <1>3 DEF Hid!IInv

LEMMA HidOpenCall ==
  ASSUME Hid!IInv, NEW u \in HidUsers, Hid!OpenCall(u)
  PROVE  Hid!IInv'
<1>1. Hid!TypeOK'
  BY HidAssumption DEF Hid!OpenCall, Hid!IInv, Hid!TypeOK
<1>2. Hid!UsersInv'
  BY HidAssumption, ZenonT(40) DEF Hid!OpenCall, Hid!IInv, Hid!TypeOK, Hid!UsersInv, Hid!UrbInv, Hid!HasUser
<1>3. Hid!UrbInv'
  BY HidAssumption DEF Hid!OpenCall, Hid!IInv, Hid!TypeOK, Hid!UsersInv, Hid!UrbInv,
     Hid!HasUser, Hid!OnlyUserIsServed
<1> QED
  BY <1>1, <1>2, <1>3 DEF Hid!IInv

LEMMA HidOpen ==
  ASSUME Hid!IInv, NEW u \in HidUsers, Hid!Open(u)
  PROVE  Hid!IInv'
<1>1. Hid!TypeOK'
  BY HidAssumption DEF Hid!Open, Hid!Submit, Hid!IInv, Hid!TypeOK
<1>2. Hid!UsersInv'
  BY HidAssumption DEF Hid!Open, Hid!Submit, Hid!IInv, Hid!TypeOK, Hid!UsersInv, Hid!UrbInv,
     Hid!HasUser
<1>3. Hid!UrbInv'
  BY HidAssumption DEF Hid!Open, Hid!Submit, Hid!IInv, Hid!TypeOK, Hid!UsersInv, Hid!UrbInv,
     Hid!HasUser, Hid!OnlyUserIsServed
<1> QED
  BY <1>1, <1>2, <1>3 DEF Hid!IInv

LEMMA HidCloseCall ==
  ASSUME Hid!IInv, NEW u \in HidUsers, Hid!CloseCall(u)
  PROVE  Hid!IInv'
<1>1. Hid!TypeOK'
  BY HidAssumption DEF Hid!CloseCall, Hid!IInv, Hid!TypeOK
<1>2. Hid!UsersInv'
  BY HidAssumption DEF Hid!CloseCall, Hid!IInv, Hid!TypeOK, Hid!UsersInv, Hid!UrbInv,
     Hid!HasUser
<1>3. Hid!UrbInv'
  BY HidAssumption DEF Hid!CloseCall, Hid!IInv, Hid!TypeOK, Hid!UsersInv, Hid!UrbInv,
     Hid!HasUser, Hid!OnlyUserIsServed
<1> QED
  BY <1>1, <1>2, <1>3 DEF Hid!IInv

LEMMA HidClose ==
  ASSUME Hid!IInv, NEW u \in HidUsers, Hid!Close(u)
  PROVE  Hid!IInv'
<1>1. Hid!TypeOK'
  BY HidAssumption DEF Hid!Close, Hid!Kill, Hid!Killed, Hid!IInv, Hid!TypeOK
<1>2. Hid!UsersInv'
  BY HidAssumption DEF Hid!Close, Hid!Kill, Hid!Killed, Hid!IInv, Hid!TypeOK, Hid!UsersInv,
     Hid!UrbInv, Hid!HasUser
<1>3. Hid!UrbInv'
  BY HidAssumption DEF Hid!Close, Hid!Kill, Hid!Killed, Hid!IInv, Hid!TypeOK, Hid!UsersInv,
     Hid!UrbInv, Hid!HasUser, Hid!OnlyUserIsServed
<1> QED
  BY <1>1, <1>2, <1>3 DEF Hid!IInv

LEMMA HidInit ==
  ASSUME Hid!Init
  PROVE  Hid!IInv
BY DEF Hid!Init, Hid!IInv, Hid!TypeOK, Hid!UsersInv, Hid!UrbInv, Hid!HasUser,
   Hid!OnlyUserIsServed

LEMMA HidNext ==
  ASSUME Hid!IInv, Hid!Next
  PROVE  Hid!IInv'
<1>1. CASE Hid!Probe \/ Hid!Start \/ Hid!Disconnect \/ Hid!StopKill \/ Hid!Stop \/ Hid!Free
           \/ Hid!Complete \/ Hid!IrqIn \/ Hid!Unplug \/ Hid!Plug
  BY <1>1, HidProbe, HidStart, HidDisconnect, HidStopKill, HidStop, HidFree, HidComplete,
     HidIrqIn, HidUnplug, HidPlug
<1>2. CASE \E u \in HidUsers : Hid!OpenCall(u) \/ Hid!Open(u) \/ Hid!CloseCall(u) \/ Hid!Close(u)
  BY <1>2, HidOpenCall, HidOpen, HidCloseCall, HidClose
<1> QED
  BY <1>1, <1>2 DEF Hid!Next

LEMMA HidServed ==
  ASSUME Hid!IInv
  PROVE  Hid!QuietWhenClosed /\ Hid!OnlyUserIsServed
BY HidAssumption DEF Hid!IInv, Hid!TypeOK, Hid!UsersInv, Hid!UrbInv, Hid!QuietWhenClosed,
   Hid!HasUser

(***************************************************************************)
(* The system call hooks (Hooks)                                           *)
(***************************************************************************)

LEMMA HookInsmod ==
  ASSUME Hook!IInv, Hook!Insmod
  PROVE  Hook!IInv'
<1>1. Hook!TypeOK'
  BY DEF Hook!Insmod, Hook!IInv, Hook!TypeOK, Hook!CallStates
<1>2. Hook!WpInv'
  BY DEF Hook!Insmod, Hook!IInv, Hook!TypeOK, Hook!CallStates, Hook!WpInv
<1>3. Hook!TableInv'
  BY DEF Hook!Insmod, Hook!IInv, Hook!TypeOK, Hook!CallStates, Hook!WpInv, Hook!TableInv,
     Hook!Hooked, Hook!Entries
<1>4. Hook!CallInv'
  BY DEF Hook!Insmod, Hook!IInv, Hook!TypeOK, Hook!CallStates, Hook!TableInv, Hook!CallInv,
     Hook!Hooked, Hook!Entries
<1>5. Hook!CrashesOnlyIfMisused'
  BY DEF Hook!Insmod, Hook!IInv, Hook!TypeOK, Hook!CallStates, Hook!WpInv, Hook!TableInv,
     Hook!CallInv, Hook!CrashesOnlyIfMisused
<1> QED
  BY <1>1, <1>2, <1>3, <1>4, <1>5 DEF Hook!IInv

LEMMA HookUnprotect ==
  ASSUME Hook!IInv, Hook!Unprotect
  PROVE  Hook!IInv'
<1>1. Hook!TypeOK'
  BY DEF Hook!Unprotect, Hook!IInv, Hook!TypeOK, Hook!CallStates
<1>2. Hook!WpInv'
  BY DEF Hook!Unprotect, Hook!IInv, Hook!TypeOK, Hook!CallStates, Hook!WpInv
<1>3. Hook!TableInv'
  BY DEF Hook!Unprotect, Hook!IInv, Hook!TypeOK, Hook!CallStates, Hook!WpInv, Hook!TableInv,
     Hook!Hooked, Hook!Entries
<1>4. Hook!CallInv'
  BY DEF Hook!Unprotect, Hook!IInv, Hook!TypeOK, Hook!CallStates, Hook!TableInv, Hook!CallInv,
     Hook!Hooked, Hook!Entries
<1>5. Hook!CrashesOnlyIfMisused'
  BY DEF Hook!Unprotect, Hook!IInv, Hook!TypeOK, Hook!CallStates, Hook!WpInv, Hook!TableInv,
     Hook!CallInv, Hook!CrashesOnlyIfMisused
<1> QED
  BY <1>1, <1>2, <1>3, <1>4, <1>5 DEF Hook!IInv

LEMMA HookMigrate ==
  ASSUME Hook!IInv, Hook!Migrate
  PROVE  Hook!IInv'
<1>1. Hook!TypeOK'
  BY DEF Hook!Migrate, Hook!IInv, Hook!TypeOK, Hook!CallStates
<1>2. Hook!WpInv'
  BY DEF Hook!Migrate, Hook!IInv, Hook!TypeOK, Hook!CallStates, Hook!WpInv
<1>3. Hook!TableInv'
  BY DEF Hook!Migrate, Hook!IInv, Hook!TypeOK, Hook!CallStates, Hook!WpInv, Hook!TableInv,
     Hook!Hooked, Hook!Entries
<1>4. Hook!CallInv'
  BY DEF Hook!Migrate, Hook!IInv, Hook!TypeOK, Hook!CallStates, Hook!TableInv, Hook!CallInv,
     Hook!Hooked, Hook!Entries
<1>5. Hook!CrashesOnlyIfMisused'
  BY DEF Hook!Migrate, Hook!IInv, Hook!TypeOK, Hook!CallStates, Hook!WpInv, Hook!TableInv,
     Hook!CallInv, Hook!CrashesOnlyIfMisused
<1> QED
  BY <1>1, <1>2, <1>3, <1>4, <1>5 DEF Hook!IInv

LEMMA HookSave ==
  ASSUME Hook!IInv, Hook!Save
  PROVE  Hook!IInv'
<1>1. Hook!TypeOK'
  BY DEF Hook!Save, Hook!IInv, Hook!TypeOK, Hook!CallStates
<1>2. Hook!WpInv'
  BY DEF Hook!Save, Hook!IInv, Hook!TypeOK, Hook!CallStates, Hook!WpInv
<1>3. Hook!TableInv'
  BY DEF Hook!Save, Hook!IInv, Hook!TypeOK, Hook!CallStates, Hook!WpInv, Hook!TableInv,
     Hook!Hooked, Hook!Entries
<1>4. Hook!CallInv'
  BY DEF Hook!Save, Hook!IInv, Hook!TypeOK, Hook!CallStates, Hook!TableInv, Hook!CallInv,
     Hook!Hooked, Hook!Entries
<1>5. Hook!CrashesOnlyIfMisused'
  BY DEF Hook!Save, Hook!IInv, Hook!TypeOK, Hook!CallStates, Hook!WpInv, Hook!TableInv,
     Hook!CallInv, Hook!CrashesOnlyIfMisused
<1> QED
  BY <1>1, <1>2, <1>3, <1>4, <1>5 DEF Hook!IInv

LEMMA HookInstall ==
  ASSUME Hook!IInv, Hook!Install
  PROVE  Hook!IInv'
<1>1. Hook!TypeOK'
  BY DEF Hook!Install, Hook!Write, Hook!IInv, Hook!TypeOK, Hook!CallStates
<1>2. Hook!WpInv'
  BY DEF Hook!Install, Hook!Write, Hook!IInv, Hook!TypeOK, Hook!CallStates, Hook!WpInv
<1>3. Hook!TableInv'
  BY DEF Hook!Install, Hook!Write, Hook!IInv, Hook!TypeOK, Hook!CallStates, Hook!WpInv,
     Hook!TableInv, Hook!Hooked, Hook!Entries
<1>4. Hook!CallInv'
  <2>1. UNCHANGED <<x7, x8>>
    BY DEF Hook!Install, Hook!Write
  <2>2. ~x9' => ~x9
    BY DEF Hook!Install, Hook!Write
  <2>3. /\ x2 \notin {"unloaded", "unprotect", "save"}
        /\ x2' \notin {"unloaded", "unprotect", "save"}
    BY DEF Hook!Install, Hook!Write
  <2> QED
    BY <2>1, <2>2, <2>3 DEF Hook!IInv, Hook!CallInv, Hook!Entries
<1>5. Hook!CrashesOnlyIfMisused'
  BY DEF Hook!Install, Hook!Write, Hook!IInv, Hook!TypeOK, Hook!CallStates, Hook!WpInv,
     Hook!TableInv, Hook!CallInv, Hook!CrashesOnlyIfMisused
<1> QED
  BY <1>1, <1>2, <1>3, <1>4, <1>5 DEF Hook!IInv

LEMMA HookProtect ==
  ASSUME Hook!IInv, Hook!Protect
  PROVE  Hook!IInv'
<1>1. Hook!TypeOK'
  BY DEF Hook!Protect, Hook!IInv, Hook!TypeOK, Hook!CallStates
<1>2. Hook!WpInv'
  BY DEF Hook!Protect, Hook!IInv, Hook!TypeOK, Hook!CallStates, Hook!WpInv
<1>3. Hook!TableInv'
  BY DEF Hook!Protect, Hook!IInv, Hook!TypeOK, Hook!CallStates, Hook!WpInv, Hook!TableInv,
     Hook!Hooked, Hook!Entries
<1>4. Hook!CallInv'
  BY DEF Hook!Protect, Hook!IInv, Hook!TypeOK, Hook!CallStates, Hook!TableInv, Hook!CallInv,
     Hook!Hooked, Hook!Entries
<1>5. Hook!CrashesOnlyIfMisused'
  BY DEF Hook!Protect, Hook!IInv, Hook!TypeOK, Hook!CallStates, Hook!WpInv, Hook!TableInv,
     Hook!CallInv, Hook!CrashesOnlyIfMisused
<1> QED
  BY <1>1, <1>2, <1>3, <1>4, <1>5 DEF Hook!IInv

LEMMA HookRmmod ==
  ASSUME Hook!IInv, Hook!Rmmod
  PROVE  Hook!IInv'
<1>1. Hook!TypeOK'
  BY DEF Hook!Rmmod, Hook!IInv, Hook!TypeOK, Hook!CallStates
<1>2. Hook!WpInv'
  BY DEF Hook!Rmmod, Hook!IInv, Hook!TypeOK, Hook!CallStates, Hook!WpInv
<1>3. Hook!TableInv'
  BY DEF Hook!Rmmod, Hook!IInv, Hook!TypeOK, Hook!CallStates, Hook!WpInv, Hook!TableInv,
     Hook!Hooked, Hook!Entries
<1>4. Hook!CallInv'
  BY DEF Hook!Rmmod, Hook!IInv, Hook!TypeOK, Hook!CallStates, Hook!TableInv, Hook!CallInv,
     Hook!Hooked, Hook!Entries
<1>5. Hook!CrashesOnlyIfMisused'
  BY DEF Hook!Rmmod, Hook!IInv, Hook!TypeOK, Hook!CallStates, Hook!WpInv, Hook!TableInv,
     Hook!CallInv, Hook!CrashesOnlyIfMisused
<1> QED
  BY <1>1, <1>2, <1>3, <1>4, <1>5 DEF Hook!IInv

LEMMA HookRestore ==
  ASSUME Hook!IInv, Hook!Restore
  PROVE  Hook!IInv'
<1>1. Hook!TypeOK'
  BY DEF Hook!Restore, Hook!Write, Hook!IInv, Hook!TypeOK, Hook!CallStates
<1>2. Hook!WpInv'
  BY DEF Hook!Restore, Hook!Write, Hook!IInv, Hook!TypeOK, Hook!CallStates, Hook!WpInv
<1>3. Hook!TableInv'
  BY DEF Hook!Restore, Hook!Write, Hook!IInv, Hook!TypeOK, Hook!CallStates, Hook!WpInv,
     Hook!TableInv, Hook!Hooked, Hook!Entries
<1>4. Hook!CallInv'
  <2>1. UNCHANGED <<x7, x8>>
    BY DEF Hook!Restore, Hook!Write
  <2>2. ~x9' => ~x9
    BY DEF Hook!Restore, Hook!Write
  <2>3. /\ x2 \notin {"unloaded", "unprotect", "save"}
        /\ x2' \notin {"unloaded", "unprotect", "save"}
    BY DEF Hook!Restore, Hook!Write
  <2> QED
    BY <2>1, <2>2, <2>3 DEF Hook!IInv, Hook!CallInv, Hook!Entries
<1>5. Hook!CrashesOnlyIfMisused'
  BY DEF Hook!Restore, Hook!Write, Hook!IInv, Hook!TypeOK, Hook!CallStates, Hook!WpInv,
     Hook!TableInv, Hook!CallInv, Hook!CrashesOnlyIfMisused
<1> QED
  BY <1>1, <1>2, <1>3, <1>4, <1>5 DEF Hook!IInv

LEMMA HookUnload ==
  ASSUME Hook!IInv, Hook!Unload
  PROVE  Hook!IInv'
<1>1. Hook!TypeOK'
  BY DEF Hook!Unload, Hook!IInv, Hook!TypeOK, Hook!CallStates
<1>2. Hook!WpInv'
  BY DEF Hook!Unload, Hook!IInv, Hook!TypeOK, Hook!CallStates, Hook!WpInv
<1>3. Hook!TableInv'
  BY DEF Hook!Unload, Hook!IInv, Hook!TypeOK, Hook!CallStates, Hook!WpInv, Hook!TableInv,
     Hook!Hooked, Hook!Entries
<1>4. Hook!CallInv'
  BY DEF Hook!Unload, Hook!IInv, Hook!TypeOK, Hook!CallStates, Hook!TableInv, Hook!CallInv,
     Hook!Hooked, Hook!Entries
<1>5. Hook!CrashesOnlyIfMisused'
  BY DEF Hook!Unload, Hook!IInv, Hook!TypeOK, Hook!CallStates, Hook!WpInv, Hook!TableInv,
     Hook!CallInv, Hook!CrashesOnlyIfMisused
<1> QED
  BY <1>1, <1>2, <1>3, <1>4, <1>5 DEF Hook!IInv

LEMMA HookHook ==
  ASSUME Hook!IInv, NEW p \in HookPrograms, ~x9, Hook!Hook(p)
  PROVE  Hook!IInv'
<1>1. Hook!TypeOK'
  <2>1. PICK fs \in {"user", "kernel"} :
            x8' = [x8 EXCEPT ![p] = [x8[p] EXCEPT !.pc = "orig", !.fs = fs]]
    BY DEF Hook!Hook
  <2>2. x8' \in [HookPrograms -> Hook!CallStates]
    BY <2>1 DEF Hook!IInv, Hook!TypeOK, Hook!CallStates
  <2> QED
    BY <2>2 DEF Hook!Hook, Hook!IInv, Hook!TypeOK
<1>2. Hook!WpInv'
  BY DEF Hook!Hook, Hook!Replaced, Hook!Entries, Hook!IInv, Hook!TypeOK, Hook!CallStates,
     Hook!WpInv
<1>3. Hook!TableInv'
  BY DEF Hook!Hook, Hook!Replaced, Hook!Entries, Hook!IInv, Hook!TypeOK, Hook!CallStates,
     Hook!WpInv, Hook!TableInv, Hook!Hooked, Hook!Entries
<1>4. Hook!CallInv'
  BY DEF Hook!Hook, Hook!Replaced, Hook!Entries, Hook!IInv, Hook!TypeOK, Hook!CallStates,
     Hook!TableInv, Hook!CallInv, Hook!Hooked, Hook!Entries
<1>5. Hook!CrashesOnlyIfMisused'
  BY DEF Hook!Hook, Hook!Replaced, Hook!Entries, Hook!IInv, Hook!TypeOK, Hook!CallStates,
     Hook!WpInv, Hook!TableInv, Hook!CallInv, Hook!CrashesOnlyIfMisused
<1> QED
  BY <1>1, <1>2, <1>3, <1>4, <1>5 DEF Hook!IInv

LEMMA HookHookReturn ==
  ASSUME Hook!IInv, NEW p \in HookPrograms, ~x9, Hook!HookReturn(p)
  PROVE  Hook!IInv'
<1>1. Hook!TypeOK'
  <2>1. UNCHANGED x8 \/ x8' = [x8 EXCEPT ![p] = Hook!Outside]
    BY DEF Hook!HookReturn
  <2>2. UNCHANGED <<x2, x3, x4, x6, x10>> /\ x9' \in BOOLEAN
    BY DEF Hook!HookReturn, Hook!IInv, Hook!TypeOK
  <2>3. x8' \in [HookPrograms -> Hook!CallStates]
    <3>1. Hook!Outside \in Hook!CallStates
      BY DEF Hook!Outside, Hook!CallStates
    <3> QED
      BY <2>1, <3>1 DEF Hook!IInv, Hook!TypeOK
  <2> QED
    BY <2>1, <2>2, <2>3 DEF Hook!IInv, Hook!TypeOK
<1>2. Hook!WpInv'
  BY DEF Hook!HookReturn, Hook!Outside, Hook!IInv, Hook!TypeOK, Hook!CallStates, Hook!WpInv
<1>3. Hook!TableInv'
  BY DEF Hook!HookReturn, Hook!Outside, Hook!IInv, Hook!TypeOK, Hook!CallStates, Hook!WpInv,
     Hook!TableInv, Hook!Hooked, Hook!Entries
<1>4. Hook!CallInv'
  BY DEF Hook!HookReturn, Hook!Outside, Hook!IInv, Hook!TypeOK, Hook!CallStates, Hook!TableInv,
     Hook!CallInv, Hook!Hooked, Hook!Entries
<1>5. Hook!CrashesOnlyIfMisused'
  <2>1. CASE (x8[p].stale \/ x8[p].file = "wild") /\ UNCHANGED x8
    BY <2>1 DEF Hook!CrashesOnlyIfMisused
  <2>2. CASE UNCHANGED x9 /\ x8' = [x8 EXCEPT ![p] = Hook!Outside]
    BY <2>2 DEF Hook!HookReturn, Hook!IInv, Hook!TypeOK, Hook!CrashesOnlyIfMisused
  <2> QED
    BY <2>1, <2>2 DEF Hook!HookReturn
<1> QED
  BY <1>1, <1>2, <1>3, <1>4, <1>5 DEF Hook!IInv

LEMMA HookCall ==
  ASSUME Hook!IInv, NEW p \in HookPrograms, NEW e \in Hook!Entries, NEW f \in Hook!Files,
         ~x9, Hook!Call(p, e, f)
  PROVE  Hook!IInv'
<1>1. Hook!TypeOK'
  BY DEF Hook!Call, Hook!Outside, Hook!IInv, Hook!TypeOK, Hook!CallStates
<1>2. Hook!WpInv'
  BY DEF Hook!Call, Hook!Outside, Hook!IInv, Hook!TypeOK, Hook!CallStates, Hook!WpInv
<1>3. Hook!TableInv'
  BY DEF Hook!Call, Hook!Outside, Hook!IInv, Hook!TypeOK, Hook!CallStates, Hook!WpInv,
     Hook!TableInv, Hook!Hooked, Hook!Entries
<1>4. Hook!CallInv'
  BY DEF Hook!Call, Hook!Outside, Hook!IInv, Hook!TypeOK, Hook!CallStates, Hook!TableInv,
     Hook!CallInv, Hook!Hooked, Hook!Entries
<1>5. Hook!CrashesOnlyIfMisused'
  BY DEF Hook!Call, Hook!CrashesOnlyIfMisused
<1> QED
  BY <1>1, <1>2, <1>3, <1>4, <1>5 DEF Hook!IInv

LEMMA HookInit ==
  ASSUME Hook!Init
  PROVE  Hook!IInv
<1>1. Hook!TypeOK
  <2>1. Hook!Outside \in Hook!CallStates
    BY DEF Hook!Outside, Hook!CallStates
  <2> QED
    BY <2>1, HookAssumption DEF Hook!Init, Hook!TypeOK
<1>2. Hook!WpInv /\ Hook!TableInv /\ Hook!CallInv /\ Hook!CrashesOnlyIfMisused
  BY DEF Hook!Init, Hook!WpInv, Hook!TableInv, Hook!CallInv, Hook!CrashesOnlyIfMisused,
     Hook!Outside
<1> QED
  BY <1>1, <1>2 DEF Hook!IInv

LEMMA HookNext ==
  ASSUME Hook!IInv, Hook!Next
  PROVE  Hook!IInv'
<1>1. CASE Hook!Insmod \/ Hook!Unprotect \/ Hook!Migrate \/ Hook!Save \/ Hook!Install
           \/ Hook!Protect \/ Hook!Rmmod \/ Hook!Restore \/ Hook!Unload
  BY <1>1, HookInsmod, HookUnprotect, HookMigrate, HookSave, HookInstall, HookProtect,
     HookRmmod, HookRestore, HookUnload
<1>2. CASE \E p \in HookPrograms : Hook!Hook(p) \/ Hook!HookReturn(p)
                \/ \E e \in Hook!Entries, f \in Hook!Files : Hook!Call(p, e, f)
  BY <1>2, HookHook, HookHookReturn, HookCall DEF Hook!Next
<1> QED
  BY <1>1, <1>2 DEF Hook!Next

\* What the runs check follows.
LEMMA HookServed ==
  ASSUME Hook!IInv
  PROVE  Hook!CrashesOnlyIfMisused /\ Hook!RestsProtected
<1>1. Hook!RestsProtected
  BY DEF Hook!IInv, Hook!TypeOK, Hook!WpInv, Hook!TableInv, Hook!CallInv, Hook!RestsProtected,
     Hook!Entries
<1> QED
  BY <1>1 DEF Hook!IInv

(***************************************************************************)
(* The atl1c hardware (AtlHw). First what the helpers return, then the     *)
(* actions; a register or record that an action leaves alone is in a lemma *)
(* of its own.                                                             *)
(***************************************************************************)

LEMMA HwAspm ==
  ASSUME NEW s
  PROVE  Hw!Aspm(Hw!AllAspm, s) \in SUBSET Hw!AllAspm /\ Hw!Aspm({}, 0) = {}
<1>1. ASSUME NEW sup \in SUBSET Hw!AllAspm, NEW t PROVE Hw!Aspm(sup, t) \subseteq sup
  <2>1. CASE x1.type \in {"l1c", "l2c"}
    BY <2>1 DEF Hw!Aspm
  <2>2. CASE x1.type = "l2c_b"
    BY <2>2 DEF Hw!Aspm
  <2>3. CASE x1.type \notin {"l1c", "l2c", "l2c_b"}
    BY <2>3 DEF Hw!Aspm
  <2> QED
    BY <2>1, <2>2, <2>3
<1>2. {} \in SUBSET Hw!AllAspm /\ Hw!AllAspm \in SUBSET Hw!AllAspm
  OBVIOUS
<1>3. Hw!Aspm({}, 0) \subseteq {}
  BY <1>1, <1>2
<1>4. Hw!Aspm(Hw!AllAspm, s) \subseteq Hw!AllAspm
  BY <1>1, <1>2
<1> QED
  BY <1>3, <1>4

LEMMA HwSetAspm ==
  ASSUME NEW r \in Hw!Registers, NEW v \in SUBSET Hw!AllAspm
  PROVE  /\ [r EXCEPT !.aspm = v] \in Hw!Registers /\ [r EXCEPT !.aspm = v].aspm = v
         /\ [r EXCEPT !.aspm = v].wol = r.wol /\ [r EXCEPT !.aspm = v].sta = r.sta
         /\ [r EXCEPT !.aspm = v].otp = r.otp /\ [r EXCEPT !.aspm = v].filter = r.filter
         /\ [r EXCEPT !.aspm = v].vlan = r.vlan /\ [r EXCEPT !.aspm = v].mtu = r.mtu
         /\ [r EXCEPT !.aspm = v].rxbuf = r.rxbuf /\ [r EXCEPT !.aspm = v].mac = r.mac
BY DEF Hw!Registers

LEMMA HwSetMac ==
  ASSUME NEW r \in Hw!Registers, NEW v \in SUBSET {"tx", "rx"}
  PROVE  /\ [r EXCEPT !.mac = v] \in Hw!Registers /\ [r EXCEPT !.mac = v].aspm = r.aspm
         /\ [r EXCEPT !.mac = v].wol = r.wol /\ [r EXCEPT !.mac = v].sta = r.sta
         /\ [r EXCEPT !.mac = v].otp = r.otp /\ [r EXCEPT !.mac = v].filter = r.filter
         /\ [r EXCEPT !.mac = v].vlan = r.vlan /\ [r EXCEPT !.mac = v].mtu = r.mtu
         /\ [r EXCEPT !.mac = v].rxbuf = r.rxbuf /\ [r EXCEPT !.mac = v].mac = v
BY DEF Hw!Registers

LEMMA HwPutWol ==
  ASSUME NEW r \in Hw!Registers, NEW v \in Hw!Wakeups
  PROVE  /\ [r EXCEPT !.wol = v] \in Hw!Registers /\ [r EXCEPT !.wol = v].aspm = r.aspm
         /\ [r EXCEPT !.wol = v].wol = v /\ [r EXCEPT !.wol = v].sta = r.sta
         /\ [r EXCEPT !.wol = v].otp = r.otp /\ [r EXCEPT !.wol = v].mac = r.mac
BY DEF Hw!Registers

LEMMA HwSetAddr ==
  ASSUME NEW r \in Hw!Registers, NEW v \in Hw!Addresses
  PROVE  /\ Hw!SetAddr(r, v) \in Hw!Registers /\ Hw!SetAddr(r, v).sta = v
         /\ Hw!SetAddr(r, v).aspm = r.aspm /\ Hw!SetAddr(r, v).wol = r.wol
         /\ Hw!SetAddr(r, v).otp = r.otp
BY DEF Hw!SetAddr, Hw!Registers

LEMMA HwResetMac ==
  ASSUME NEW r \in Hw!Registers
  PROVE  /\ Hw!ResetMac(r) \in Hw!Registers /\ Hw!ResetMac(r).aspm = r.aspm
         /\ Hw!ResetMac(r).wol = r.wol /\ Hw!ResetMac(r).sta = r.sta
         /\ Hw!ResetMac(r).otp = r.otp
         /\ Hw!ResetMac(r).mac = {}
<1>1. PICK f \in Hw!Filters : f = Hw!NoFilter
  BY DEF Hw!NoFilter, Hw!Filters
<1>2. PICK v \in BOOLEAN : v = FALSE
  OBVIOUS
<1>3. PICK s \in Hw!Registers :
          s = Hw!StopMac(r) /\ s.aspm = r.aspm /\ s.wol = r.wol /\ s.sta = r.sta
                                /\ s.otp = r.otp /\ s.mac = {}
  BY HwSetMac DEF Hw!StopMac
<1>4. Hw!ResetMac(r) = [s EXCEPT !.filter = f, !.vlan = v]
  BY <1>1, <1>2, <1>3, Zenon DEF Hw!ResetMac
<1> QED
  BY <1>3, <1>4 DEF Hw!Registers

LEMMA HwResetPcie ==
  ASSUME NEW r \in Hw!Registers
  PROVE  /\ Hw!ResetPcie(r) \in Hw!Registers /\ Hw!ResetPcie(r).aspm = {}
         /\ Hw!ResetPcie(r).wol = {}
         /\ Hw!ResetPcie(r).sta = r.sta /\ Hw!ResetPcie(r).otp = r.otp
<1>1. {} \in Hw!Wakeups /\ {} \in SUBSET Hw!AllAspm
  BY DEF Hw!Wakeups
<1>2. PICK s \in Hw!Registers :
          s = [r EXCEPT !.wol = {}] /\ s.wol = {} /\ s.sta = r.sta /\ s.otp = r.otp
  BY <1>1, HwPutWol
<1>3. Hw!ResetPcie(r) = [s EXCEPT !.aspm = {}]
  BY <1>2, HwAspm, Zenon DEF Hw!ResetPcie, Hw!DisableAspm
<1> QED
  <2>1. [s EXCEPT !.aspm = {}] \in Hw!Registers /\ [s EXCEPT !.aspm = {}].aspm = {}
        /\ [s EXCEPT !.aspm = {}].wol = s.wol /\ [s EXCEPT !.aspm = {}].sta = s.sta
        /\ [s EXCEPT !.aspm = {}].otp = s.otp
    BY <1>1, HwSetAspm, Zenon
  <2> QED
    BY <1>2, <1>3, <2>1, Zenon

LEMMA HwDown ==
  ASSUME NEW r \in Hw!Registers
  PROVE  /\ Hw!DownReg(r) \in Hw!Registers /\ Hw!DownReg(r).aspm = {}
         /\ Hw!DownReg(r).wol = r.wol
         /\ Hw!DownReg(r).sta = r.sta /\ Hw!DownReg(r).otp = r.otp /\ Hw!DownReg(r).mac = {}
         /\ Hw!DisableAspm(r) \in Hw!Registers /\ Hw!DisableAspm(r).aspm = {}
         /\ Hw!DisableAspm(r).wol = r.wol /\ Hw!DisableAspm(r).sta = r.sta
         /\ Hw!DisableAspm(r).otp = r.otp
<1>1. {} \in SUBSET Hw!AllAspm
  OBVIOUS
<1>2. PICK s \in Hw!Registers :
          s = Hw!DisableAspm(r) /\ s.aspm = {} /\ s.wol = r.wol /\ s.sta = r.sta
                                /\ s.otp = r.otp
  <2>1. Hw!DisableAspm(r) = [r EXCEPT !.aspm = {}]
    BY HwAspm, Zenon DEF Hw!DisableAspm
  <2> QED
    BY <1>1, <2>1, HwSetAspm
<1>3. Hw!DownReg(r) = Hw!ResetMac(s)
  BY <1>2, Zenon DEF Hw!DownReg
<1> QED
  BY <1>2, <1>3, HwResetMac

LEMMA HwSetMulti ==
  ASSUME NEW r \in Hw!Registers, NEW fl \in Hw!FlagSets
  PROVE  /\ Hw!SetMulti(r, fl) \in Hw!Registers
         /\ Hw!SetMulti(r, fl).filter.promisc = fl.promisc
         /\ Hw!SetMulti(r, fl).filter.hash = fl.mc
         /\ fl.promisc \/ Hw!SetMulti(r, fl).filter.allmulti = fl.allmulti
         /\ Hw!SetMulti(r, fl).aspm = r.aspm /\ Hw!SetMulti(r, fl).wol = r.wol
         /\ Hw!SetMulti(r, fl).sta = r.sta /\ Hw!SetMulti(r, fl).otp = r.otp
         /\ Hw!SetMulti(r, fl).mac = r.mac /\ Hw!SetMulti(r, fl).vlan = r.vlan
         /\ Hw!SetMulti(r, fl).mtu = r.mtu /\ Hw!SetMulti(r, fl).rxbuf = r.rxbuf
<1>1. PICK all \in BOOLEAN : all = IF fl.promisc THEN r.filter.allmulti ELSE fl.allmulti
  BY DEF Hw!FlagSets, Hw!Registers, Hw!Filters
<1> DEFINE f == [r.filter EXCEPT !.promisc = fl.promisc, !.allmulti = all, !.hash = fl.mc]
<1>2. f \in Hw!Filters /\ f.promisc = fl.promisc /\ f.allmulti = all /\ f.hash = fl.mc
  BY DEF Hw!FlagSets, Hw!Registers, Hw!Filters
<1>3. Hw!SetMulti(r, fl) = [r EXCEPT !.filter = f]
  <2>1. Hw!SetMulti(r, fl) = [r EXCEPT !.filter.promisc = fl.promisc, !.filter.allmulti = all,
                                       !.filter.hash = fl.mc]
    BY <1>1 DEF Hw!SetMulti, Hw!Registers, Hw!Filters
  <2> QED
    BY <2>1 DEF Hw!Registers, Hw!Filters
<1> HIDE DEF f
<1>4. /\ [r EXCEPT !.filter = f] \in Hw!Registers /\ [r EXCEPT !.filter = f].filter = f
      /\ [r EXCEPT !.filter = f].aspm = r.aspm /\ [r EXCEPT !.filter = f].wol = r.wol
      /\ [r EXCEPT !.filter = f].sta = r.sta /\ [r EXCEPT !.filter = f].otp = r.otp
      /\ [r EXCEPT !.filter = f].mac = r.mac /\ [r EXCEPT !.filter = f].vlan = r.vlan
      /\ [r EXCEPT !.filter = f].mtu = r.mtu /\ [r EXCEPT !.filter = f].rxbuf = r.rxbuf
  BY <1>2 DEF Hw!Registers
<1> QED
  BY <1>1, <1>2, <1>3, <1>4, Zenon

LEMMA HwConfigure ==
  ASSUME NEW r \in Hw!Registers, NEW n \in Hw!NetDevs, NEW h \in Hw!Records
  PROVE  /\ Hw!Configure(r, n, h) \in Hw!Registers /\ Hw!Programmed(Hw!Configure(r, n, h), n, h)
         /\ Hw!Configure(r, n, h).sta = r.sta /\ Hw!Configure(r, n, h).otp = r.otp
<1>1. n.flags \in Hw!FlagSets /\ h.max_frame \in Nat /\ h.rxbuf \in Nat /\ n.vlan \in BOOLEAN
  BY DEF Hw!NetDevs, Hw!Records
<1>2. PICK s \in Hw!Registers :
         /\ s = Hw!SetMulti(r, n.flags) /\ s.filter.promisc = n.flags.promisc
         /\ s.filter.hash = n.flags.mc
         /\ n.flags.promisc \/ s.filter.allmulti = n.flags.allmulti
         /\ s.sta = r.sta /\ s.otp = r.otp
  BY <1>1, HwSetMulti, Zenon
<1>3. PICK w \in Hw!Wakeups : w = {}
  BY DEF Hw!Wakeups
<1>4. Hw!Configure(r, n, h)
         = [[[s EXCEPT !.vlan = n.vlan] EXCEPT !.rxbuf = h.rxbuf] EXCEPT !.mtu = h.max_frame, !.wol = w]
  BY <1>2, <1>3, Zenon DEF Hw!Configure, Hw!ConfigureMac, Hw!ConfigureRings
<1> DEFINE s1 == [s EXCEPT !.vlan = n.vlan]
           s2 == [s1 EXCEPT !.rxbuf = h.rxbuf]
           s3 == [s2 EXCEPT !.mtu = h.max_frame, !.wol = w]
<1>5. /\ s1 \in Hw!Registers /\ s1.vlan = n.vlan /\ s1.filter = s.filter /\ s1.sta = s.sta
      /\ s1.otp = s.otp
  BY <1>1 DEF Hw!Registers
<1>8. Hw!Configure(r, n, h) = s3
  BY <1>4, Zenon
<1> HIDE DEF s1
<1>6. /\ s2 \in Hw!Registers /\ s2.vlan = n.vlan /\ s2.rxbuf = h.rxbuf
      /\ s2.filter = s.filter /\ s2.sta = s.sta /\ s2.otp = s.otp
  BY <1>1, <1>5 DEF Hw!Registers
<1> HIDE DEF s2
<1>7. /\ s3 \in Hw!Registers /\ s3.vlan = n.vlan /\ s3.rxbuf = h.rxbuf
      /\ s3.mtu = h.max_frame /\ s3.wol = w
      /\ s3.filter = s.filter /\ s3.sta = s.sta /\ s3.otp = s.otp
  BY <1>1, <1>6 DEF Hw!Registers
<1> HIDE DEF s3
<1>9. Hw!Programmed(s3, n, h) /\ s3.sta = r.sta /\ s3.otp = r.otp
  BY <1>2, <1>3, <1>7 DEF Hw!Programmed
<1> QED
  BY <1>7, <1>8, <1>9, Zenon

LEMMA HwCheckLink ==
  ASSUME NEW h \in Hw!Records, NEW r \in Hw!Registers, NEW n \in Hw!NetDevs, NEW l,
         Hw!Programmed(r, n, h)
  PROVE  /\ Hw!CheckLinkStatus(h, r, n, l).hw \in Hw!Records
         /\ Hw!SameRecord(Hw!CheckLinkStatus(h, r, n, l).hw, h)
         /\ Hw!CheckLinkStatus(h, r, n, l).reg \in Hw!Registers
         /\ Hw!Programmed(Hw!CheckLinkStatus(h, r, n, l).reg, n, h)
         /\ Hw!CheckLinkStatus(h, r, n, l).reg.sta = r.sta
         /\ Hw!CheckLinkStatus(h, r, n, l).reg.otp = r.otp
<1> DEFINE C == Hw!CheckLinkStatus(h, r, n, l)
<1>2. PICK no \in BOOLEAN, yes \in BOOLEAN : no = FALSE /\ yes = TRUE
  OBVIOUS
<1>3. CASE l = Hw!NoLink
  <2> DEFINE h2 == [h EXCEPT !.carrier = no]
             r1 == Hw!ResetMac(r)
             r2 == Hw!Configure(r1, n, h)
             as == Hw!Aspm(Hw!AllAspm, 0)
             r3 == [r2 EXCEPT !.aspm = as]
  <2>1. C = [hw |-> h2, reg |-> r3]
    BY <1>2, <1>3, Zenon DEF Hw!CheckLinkStatus
  <2>2. h2 \in Hw!Records /\ Hw!SameRecord(h2, h)
    BY DEF Hw!Records, Hw!SameRecord
  <2>3. r1 \in Hw!Registers /\ r1.sta = r.sta /\ r1.otp = r.otp
    BY HwResetMac
  <2>4. as \in SUBSET Hw!AllAspm
    BY HwAspm
  <2> HIDE DEF as, r1, h2
  <2>5. r2 \in Hw!Registers /\ r2.sta = r.sta /\ r2.otp = r.otp /\ Hw!Programmed(r2, n, h)
    BY <2>3, HwConfigure
  <2> HIDE DEF r2
  <2>6. /\ r3 \in Hw!Registers /\ r3.sta = r.sta /\ r3.otp = r.otp
        /\ Hw!Programmed(r3, n, h)
    BY <2>4, <2>5, HwSetAspm, ZenonT(40) DEF Hw!Programmed
  <2> HIDE DEF r3
  <2>7. C.hw = h2 /\ C.reg = r3
    BY <2>1
  <2> QED
    BY <2>7, <2>2, <2>6, SMTT(30)
<1>4. CASE l # Hw!NoLink /\ h.speed = Hw!Speed(l) /\ h.duplex = Hw!Duplex(l)
  <2> DEFINE h2 == [h EXCEPT !.carrier = yes]
  <2>1. C = [hw |-> h2, reg |-> r]
    BY <1>2, <1>4, Zenon DEF Hw!CheckLinkStatus
  <2>2. h2 \in Hw!Records /\ Hw!SameRecord(h2, h)
    BY DEF Hw!Records, Hw!SameRecord
  <2> HIDE DEF h2
  <2>7. C.hw = h2 /\ C.reg = r
    BY <2>1
  <2> QED
    BY <2>7, <2>2
<1>5. CASE l # Hw!NoLink /\ ~(h.speed = Hw!Speed(l) /\ h.duplex = Hw!Duplex(l))
  <2> DEFINE sp == Hw!Speed(l)
             du == Hw!Duplex(l)
             h2 == [h EXCEPT !.carrier = yes, !.speed = sp, !.duplex = du]
             as == Hw!Aspm(Hw!AllAspm, sp)
             r1 == [r EXCEPT !.mac = {"tx", "rx"}]
             r2 == [r1 EXCEPT !.aspm = as]
  <2>1. C = [hw |-> h2, reg |-> r2]
    BY <1>2, <1>5, Zenon DEF Hw!CheckLinkStatus, Hw!StartMac
  <2>2. sp \in {10, 100, 1000} /\ du \in {"half", "full"} /\ as \in SUBSET Hw!AllAspm
    BY HwAspm DEF Hw!Speed, Hw!Duplex
  <2> HIDE DEF sp, du, as
  <2>3. h2 \in Hw!Records /\ Hw!SameRecord(h2, h)
    <3>1. sp \in Hw!Speeds /\ du \in Hw!Duplexes
      BY <2>2 DEF Hw!Speeds, Hw!Duplexes
    <3> QED
      BY <3>1 DEF Hw!Records, Hw!SameRecord
  <2>4. /\ r1 \in Hw!Registers /\ r1.sta = r.sta /\ r1.otp = r.otp /\ Hw!Programmed(r1, n, h)
    BY HwSetMac DEF Hw!Programmed
  <2> HIDE DEF r1, h2
  <2>5. /\ r2 \in Hw!Registers /\ r2.sta = r.sta /\ r2.otp = r.otp /\ Hw!Programmed(r2, n, h)
    BY <2>2, <2>4, HwSetAspm DEF Hw!Programmed, as
  <2> HIDE DEF r2
  <2>7. C.hw = h2 /\ C.reg = r2
    BY <2>1
  <2> QED
    BY <2>7, <2>3, <2>5
<1> QED
  BY <1>3, <1>4, <1>5

LEMMA HwUp ==
  ASSUME NEW h \in Hw!Records, NEW r \in Hw!Registers, NEW n \in Hw!NetDevs, NEW l
  PROVE  /\ Hw!Up(h, r, n, l).hw \in Hw!Records /\ Hw!SameRecord(Hw!Up(h, r, n, l).hw, h)
         /\ Hw!Up(h, r, n, l).reg \in Hw!Registers
         /\ Hw!Programmed(Hw!Up(h, r, n, l).reg, n, h)
         /\ Hw!Up(h, r, n, l).reg.sta = r.sta /\ Hw!Up(h, r, n, l).reg.otp = r.otp
<1>1. PICK no \in BOOLEAN : no = FALSE
  OBVIOUS
<1> DEFINE h2 == [h EXCEPT !.carrier = no]
           r2 == Hw!Configure(r, n, h)
<1>2. Hw!Up(h, r, n, l) = Hw!CheckLinkStatus(h2, r2, n, l)
  BY <1>1, Zenon DEF Hw!Up
<1>3. h2 \in Hw!Records /\ Hw!SameRecord(h2, h)
  BY DEF Hw!Records, Hw!SameRecord
<1>4. r2 \in Hw!Registers /\ Hw!Programmed(r2, n, h) /\ r2.sta = r.sta /\ r2.otp = r.otp
  BY HwConfigure
<1> HIDE DEF h2, r2
<1>5. Hw!Programmed(r2, n, h2)
  BY <1>3, <1>4 DEF Hw!Programmed, Hw!SameRecord
<1> DEFINE C == Hw!CheckLinkStatus(h2, r2, n, l)
<1>6. /\ C.hw \in Hw!Records /\ Hw!SameRecord(C.hw, h2) /\ C.reg \in Hw!Registers
      /\ Hw!Programmed(C.reg, n, h2) /\ C.reg.sta = r2.sta /\ C.reg.otp = r2.otp
  BY <1>3, <1>4, <1>5, HwCheckLink
<1> HIDE DEF C
<1>7. Hw!SameRecord(C.hw, h) /\ Hw!Programmed(C.reg, n, h)
  BY <1>3, <1>6 DEF Hw!Programmed, Hw!SameRecord
<1> QED
  BY <1>2, <1>4, <1>6, <1>7, Zenon DEF C

LEMMA HwRxBufSize ==
  ASSUME NEW m \in Nat
  PROVE  /\ Hw!RxBufSize(m) \in Nat
         /\ (m \notin 1501 .. 1522 => Hw!RxBufSize(m) >= m + Hw!Overhead)
BY DEF Hw!RxBufSize, Hw!Overhead

LEMMA HwAdvertised ==
  ASSUME NEW ad \in Hw!Adverts
  PROVE  Hw!Advertised(ad) \in SUBSET Hw!Modes
BY DEF Hw!Advertised, Hw!Adverts, Hw!Modes

LEMMA HwOp ==
  ASSUME Hw!DataOK, Hw!Op
  PROVE  x8' \in 0 .. HwOps
BY HwPartAssumption DEF Hw!DataOK, Hw!Op, Hw!HwAssumption

LEMMA HwAutoneg ==
  ASSUME NEW p \in Hw!Phys, NEW ad \in Hw!Adverts
  PROVE  /\ Hw!RestartAutoneg(p, ad) \in Hw!Phys
         /\ Hw!RestartAutoneg(p, ad).adv = Hw!Advertised(ad)
         /\ Hw!RestartAutoneg(p, ad).power = p.power /\ Hw!RestartAutoneg(p, ad).ier = p.ier
<1>1. PICK no \in BOOLEAN : no = FALSE
  OBVIOUS
<1>2. PICK v \in SUBSET Hw!Modes : v = Hw!Advertised(ad)
  BY HwAdvertised
<1>3. Hw!RestartAutoneg(p, ad) = [p EXCEPT !.adv = v, !.done = no]
  BY <1>1, <1>2, Zenon DEF Hw!RestartAutoneg
<1> QED
  BY <1>2, <1>3 DEF Hw!Phys

LEMMA HwPhyInit ==
  ASSUME NEW p \in Hw!Phys, NEW ad \in Hw!Adverts
  PROVE  /\ Hw!PhyInit(Hw!PhyReset(p), ad) \in Hw!Phys
         /\ Hw!PhyInit(Hw!PhyReset(p), ad).adv = Hw!Advertised(ad)
         /\ Hw!PhyInit(Hw!PhyReset(p), ad).power = "on"
         /\ Hw!PhyInit(Hw!PhyReset(p), ad).ier = {"up", "down"}
<1>1. /\ Hw!PhyReset(p) \in Hw!Phys /\ Hw!PhyReset(p).power = "on"
      /\ Hw!PhyReset(p).ier = {"up", "down"}
  BY DEF Hw!PhyReset, Hw!Phys
<1> QED
  BY <1>1, HwAutoneg DEF Hw!PhyInit

LEMMA HwPhyDone ==
  ASSUME NEW p \in Hw!Phys, NEW b \in BOOLEAN
  PROVE  /\ [p EXCEPT !.done = b] \in Hw!Phys /\ [p EXCEPT !.done = b].adv = p.adv
         /\ [p EXCEPT !.done = b].power = p.power /\ [p EXCEPT !.done = b].ier = p.ier
BY DEF Hw!Phys

LEMMA HwPhyOff ==
  ASSUME NEW p \in Hw!Phys
  PROVE  /\ [p EXCEPT !.power = "iddq", !.done = FALSE] \in Hw!Phys
         /\ [p EXCEPT !.power = "iddq", !.done = FALSE].power = "iddq"
<1>1. PICK no \in BOOLEAN : no = FALSE
  OBVIOUS
<1>2. [p EXCEPT !.power = "iddq", !.done = no] \in Hw!Phys
      /\ [p EXCEPT !.power = "iddq", !.done = no].power = "iddq"
  BY DEF Hw!Phys
<1> QED
  BY <1>1, <1>2, Zenon

LEMMA HwDownRecord ==
  ASSUME NEW h \in Hw!Records
  PROVE  Hw!DownHw(h) \in Hw!Records /\ Hw!SameRecord(Hw!DownHw(h), h)
<1>1. PICK no \in BOOLEAN : no = FALSE
  OBVIOUS
<1>2. PICK s \in Hw!Speeds, d \in Hw!Duplexes : s = 0 /\ d = "none"
  BY DEF Hw!Speeds, Hw!Duplexes
<1>3. Hw!DownHw(h) = [h EXCEPT !.carrier = no, !.speed = s, !.duplex = d]
  BY <1>1, <1>2, Zenon DEF Hw!DownHw
<1> QED
  BY <1>3 DEF Hw!Records, Hw!SameRecord

LEMMA HwRunning ==
  ASSUME NEW n \in Hw!NetDevs, NEW b \in BOOLEAN
  PROVE  /\ [n EXCEPT !.running = b] \in Hw!NetDevs /\ [n EXCEPT !.running = b].mtu = n.mtu
         /\ [n EXCEPT !.running = b].flags = n.flags /\ [n EXCEPT !.running = b].vlan = n.vlan
BY DEF Hw!NetDevs

LEMMA HwOpenFails ==
  ASSUME Hw!IInv, Hw!OpenFails
  PROVE  Hw!IInv'
<1>1. /\ x3 \in Hw!NetDevs /\ x4 \in Hw!Records /\ x5 \in Hw!Registers /\ x6 \in Hw!Phys
      /\ x8' \in 0 .. HwOps
  BY HwOp DEF Hw!IInv, Hw!DataOK, Hw!OpenFails
<1>2. x2 = "down" /\ UNCHANGED <<x1, x2, x3, x4, x6, x7>> /\ x5' = Hw!ResetMac(x5)
  BY DEF Hw!OpenFails
<1>3. /\ x5' \in Hw!Registers /\ x5'.aspm = x5.aspm /\ x5'.wol = x5.wol /\ x5'.sta = x5.sta
      /\ x5'.otp = x5.otp
  BY <1>1, <1>2, HwResetMac
<1>4. Hw!DataOK'
  BY <1>1, <1>2, <1>3 DEF Hw!IInv, Hw!DataOK
<1>5. Hw!InactiveNoAspm'
  BY <1>1, <1>2, <1>3 DEF Hw!IInv, Hw!InactiveNoAspm
<1>6. Hw!WakesAsAsked'
  BY <1>1, <1>2, <1>3 DEF Hw!IInv, Hw!WakesAsAsked, Hw!AdvertisesAsAsked, Hw!Present,
     Hw!SameRecord
<1>7. Hw!AdvertisesAsAsked'
  BY <1>1, <1>2, <1>3 DEF Hw!IInv, Hw!AdvertisesAsAsked, Hw!Present, Hw!Advertised, Hw!Giga,
     Hw!SameRecord
<1>8. Hw!MacInv'
  BY <1>1, <1>2, <1>3 DEF Hw!IInv, Hw!MacInv, Hw!Programmed, Hw!SameRecord
<1>9. Hw!RunningInv'
  BY <1>1, <1>2, <1>3 DEF Hw!IInv, Hw!RunningInv, Hw!DataOK, Hw!NetDevs
<1>10. Hw!AddrInv'
  BY <1>1, <1>2, <1>3 DEF Hw!IInv, Hw!AddrInv, Hw!OtpClockOff, Hw!SameRecord, Hw!Present
<1> QED
  BY <1>4, <1>5, <1>6, <1>7, <1>8, <1>9, <1>10 DEF Hw!IInv

LEMMA HwClose ==
  ASSUME Hw!IInv, Hw!Close
  PROVE  Hw!IInv'
<1>1. /\ x3 \in Hw!NetDevs /\ x4 \in Hw!Records /\ x5 \in Hw!Registers /\ x6 \in Hw!Phys
      /\ x8' \in 0 .. HwOps
  BY HwOp DEF Hw!IInv, Hw!DataOK, Hw!Close
<1>2. /\ x2 = "up" /\ x2' = "down" /\ UNCHANGED <<x1, x6, x7>> /\ x4' = Hw!DownHw(x4)
      /\ x5' = Hw!DownReg(x5) /\ x3' = [x3 EXCEPT !.running = FALSE]
  BY DEF Hw!Close
<1>3. /\ x5' \in Hw!Registers /\ x5'.aspm = {} /\ x5'.wol = x5.wol /\ x5'.sta = x5.sta
      /\ x5'.otp = x5.otp
  BY <1>1, <1>2, HwDown
<1>4. x4' \in Hw!Records /\ Hw!SameRecord(x4', x4) /\ x3' \in Hw!NetDevs /\ x3'.mtu = x3.mtu
  BY <1>1, <1>2, HwDownRecord, HwRunning
<1>5. Hw!DataOK'
  BY <1>1, <1>2, <1>3, <1>4 DEF Hw!IInv, Hw!DataOK
<1>6. Hw!InactiveNoAspm'
  BY <1>1, <1>2, <1>3, <1>4 DEF Hw!IInv, Hw!InactiveNoAspm
<1>7. Hw!WakesAsAsked'
  BY <1>1, <1>2, <1>3, <1>4 DEF Hw!IInv, Hw!WakesAsAsked, Hw!AdvertisesAsAsked, Hw!Present,
     Hw!SameRecord
<1>8. Hw!AdvertisesAsAsked'
  BY <1>1, <1>2, <1>3, <1>4 DEF Hw!IInv, Hw!AdvertisesAsAsked, Hw!Present, Hw!Advertised,
     Hw!Giga, Hw!SameRecord
<1>9. Hw!MacInv'
  BY <1>1, <1>2, <1>3, <1>4 DEF Hw!IInv, Hw!MacInv, Hw!Programmed, Hw!SameRecord
<1>10. Hw!RunningInv'
  BY <1>1, <1>2, <1>3, <1>4 DEF Hw!IInv, Hw!RunningInv, Hw!DataOK, Hw!NetDevs
<1>11. Hw!AddrInv'
  BY <1>1, <1>2, <1>3, <1>4 DEF Hw!IInv, Hw!AddrInv, Hw!OtpClockOff, Hw!SameRecord, Hw!Present
<1> QED
  BY <1>5, <1>6, <1>7, <1>8, <1>9, <1>10, <1>11 DEF Hw!IInv

LEMMA HwOpen ==
  ASSUME Hw!IInv, Hw!Open
  PROVE  Hw!IInv'
<1>1. /\ x3 \in Hw!NetDevs /\ x4 \in Hw!Records /\ x5 \in Hw!Registers /\ x6 \in Hw!Phys
      /\ x8' \in 0 .. HwOps
  BY HwOp DEF Hw!IInv, Hw!DataOK, Hw!Open
<1>2. /\ x2 = "down" /\ x2' = "up" /\ UNCHANGED <<x1, x6, x7>>
      /\ x4' = Hw!Up(x4, x5, x3, Hw!Link).hw /\ x5' = Hw!Up(x4, x5, x3, Hw!Link).reg
      /\ x3' = [x3 EXCEPT !.running = TRUE]
  BY DEF Hw!Open
<1>3. /\ x4' \in Hw!Records /\ Hw!SameRecord(x4', x4) /\ x5' \in Hw!Registers
      /\ Hw!Programmed(x5', x3, x4) /\ x5'.sta = x5.sta /\ x5'.otp = x5.otp
  BY <1>1, <1>2, HwUp
<1>4. x3' \in Hw!NetDevs /\ x3'.mtu = x3.mtu /\ x3'.flags = x3.flags /\ x3'.vlan = x3.vlan
  BY <1>1, <1>2, HwRunning
<1>5. x5'.wol = {}
  BY <1>3 DEF Hw!Programmed
<1>6. Hw!DataOK'
  BY <1>1, <1>2, <1>3, <1>4, <1>5 DEF Hw!IInv, Hw!DataOK
<1>7. Hw!InactiveNoAspm'
  BY <1>1, <1>2, <1>3, <1>4, <1>5 DEF Hw!IInv, Hw!InactiveNoAspm
<1>8. Hw!WakesAsAsked'
  BY <1>1, <1>2, <1>3, <1>4, <1>5 DEF Hw!IInv, Hw!WakesAsAsked, Hw!AdvertisesAsAsked,
     Hw!Present, Hw!SameRecord
<1>9. Hw!AdvertisesAsAsked'
  BY <1>1, <1>2, <1>3, <1>4, <1>5 DEF Hw!IInv, Hw!AdvertisesAsAsked, Hw!Present, Hw!Advertised,
     Hw!Giga, Hw!SameRecord
<1>10. Hw!MacInv'
  BY <1>1, <1>2, <1>3, <1>4, <1>5 DEF Hw!IInv, Hw!MacInv, Hw!Programmed, Hw!SameRecord
<1>11. Hw!RunningInv'
  BY <1>1, <1>2, <1>3, <1>4, <1>5 DEF Hw!IInv, Hw!RunningInv, Hw!DataOK, Hw!NetDevs
<1>12. Hw!AddrInv'
  BY <1>1, <1>2, <1>3, <1>4, <1>5 DEF Hw!IInv, Hw!AddrInv, Hw!OtpClockOff, Hw!SameRecord,
     Hw!Present
<1> QED
  BY <1>6, <1>7, <1>8, <1>9, <1>10, <1>11, <1>12 DEF Hw!IInv

LEMMA HwSetWol ==
  ASSUME Hw!IInv, NEW w \in Hw!Wakeups, Hw!SetWol(w)
  PROVE  Hw!IInv'
<1>1. /\ x3 \in Hw!NetDevs /\ x4 \in Hw!Records /\ x5 \in Hw!Registers /\ x6 \in Hw!Phys
      /\ x8' \in 0 .. HwOps
  BY HwOp DEF Hw!IInv, Hw!DataOK, Hw!SetWol
<1>2. Hw!Present /\ UNCHANGED <<x1, x2, x3, x5, x6, x7>> /\ x4' = [x4 EXCEPT !.wol = w]
  BY DEF Hw!SetWol
<1>3. x4' \in Hw!Records /\ x4'.adv = x4.adv /\ x4'.mac_addr = x4.mac_addr /\ x4'.perm = x4.perm
      /\ x4'.max_frame = x4.max_frame /\ x4'.rxbuf = x4.rxbuf
  BY <1>1, <1>2 DEF Hw!Records, Hw!Wakeups
<1>4. Hw!DataOK'
  BY <1>1, <1>2, <1>3 DEF Hw!IInv, Hw!DataOK
<1>5. Hw!InactiveNoAspm'
  BY <1>1, <1>2, <1>3 DEF Hw!IInv, Hw!InactiveNoAspm
<1>6. Hw!WakesAsAsked'
  BY <1>1, <1>2, <1>3 DEF Hw!IInv, Hw!WakesAsAsked, Hw!AdvertisesAsAsked, Hw!Present,
     Hw!SameRecord
<1>7. Hw!AdvertisesAsAsked'
  BY <1>1, <1>2, <1>3 DEF Hw!IInv, Hw!AdvertisesAsAsked, Hw!Present, Hw!Advertised, Hw!Giga,
     Hw!SameRecord
<1>8. Hw!MacInv'
  BY <1>1, <1>2, <1>3 DEF Hw!IInv, Hw!MacInv, Hw!Programmed, Hw!SameRecord
<1>9. Hw!RunningInv'
  BY <1>1, <1>2, <1>3 DEF Hw!IInv, Hw!RunningInv, Hw!DataOK, Hw!NetDevs
<1>10. Hw!AddrInv'
  BY <1>1, <1>2, <1>3 DEF Hw!IInv, Hw!AddrInv, Hw!OtpClockOff, Hw!SameRecord, Hw!Present
<1> QED
  BY <1>4, <1>5, <1>6, <1>7, <1>8, <1>9, <1>10 DEF Hw!IInv

LEMMA HwSetMacAddr ==
  ASSUME Hw!IInv, Hw!SetMacAddr
  PROVE  Hw!IInv'
<1>1. /\ x3 \in Hw!NetDevs /\ x4 \in Hw!Records /\ x5 \in Hw!Registers /\ x6 \in Hw!Phys
      /\ x8' \in 0 .. HwOps
  BY HwOp DEF Hw!IInv, Hw!DataOK, Hw!SetMacAddr
<1>2. PICK ad \in Hw!Addresses : ad = Hw!Addr("user")
  BY DEF Hw!Addr, Hw!Addresses
<1>3. /\ Hw!Present /\ ~x3.running /\ UNCHANGED <<x1, x2, x3, x6, x7>>
      /\ x4' = [x4 EXCEPT !.mac_addr = ad] /\ x5' = Hw!SetAddr(x5, ad)
  BY <1>2 DEF Hw!SetMacAddr
<1>4. x4' \in Hw!Records /\ x4'.adv = x4.adv /\ x4'.mac_addr = ad /\ x4'.perm = x4.perm
      /\ x4'.max_frame = x4.max_frame /\ x4'.rxbuf = x4.rxbuf /\ x4'.wol = x4.wol
  BY <1>1, <1>3 DEF Hw!Records
<1>5. /\ x5' \in Hw!Registers /\ x5'.sta = ad /\ x5'.aspm = x5.aspm /\ x5'.wol = x5.wol
      /\ x5'.otp = x5.otp
  BY <1>1, <1>3, HwSetAddr
<1>6. x2 # "up"
  BY <1>1, <1>3 DEF Hw!IInv, Hw!RunningInv
<1>7. Hw!DataOK'
  BY <1>1, <1>2, <1>3, <1>4, <1>5, <1>6 DEF Hw!IInv, Hw!DataOK
<1>8. Hw!InactiveNoAspm'
  BY <1>1, <1>2, <1>3, <1>4, <1>5, <1>6 DEF Hw!IInv, Hw!InactiveNoAspm
<1>9. Hw!WakesAsAsked'
  BY <1>1, <1>2, <1>3, <1>4, <1>5, <1>6 DEF Hw!IInv, Hw!WakesAsAsked, Hw!AdvertisesAsAsked,
     Hw!Present, Hw!SameRecord
<1>10. Hw!AdvertisesAsAsked'
  BY <1>1, <1>2, <1>3, <1>4, <1>5, <1>6 DEF Hw!IInv, Hw!AdvertisesAsAsked, Hw!Present,
     Hw!Advertised, Hw!Giga, Hw!SameRecord
<1>11. Hw!MacInv'
  BY <1>1, <1>2, <1>3, <1>4, <1>5, <1>6 DEF Hw!IInv, Hw!MacInv, Hw!Programmed, Hw!SameRecord
<1>12. Hw!RunningInv'
  BY <1>1, <1>2, <1>3, <1>4, <1>5, <1>6 DEF Hw!IInv, Hw!RunningInv, Hw!DataOK, Hw!NetDevs
<1>13. Hw!AddrInv'
  BY <1>1, <1>2, <1>3, <1>4, <1>5, <1>6 DEF Hw!IInv, Hw!AddrInv, Hw!OtpClockOff, Hw!SameRecord,
     Hw!Present
<1> QED
  BY <1>7, <1>8, <1>9, <1>10, <1>11, <1>12, <1>13 DEF Hw!IInv

LEMMA HwPermanent ==
  ASSUME Hw!IInv, x2 = "unbound", NEW perm \in Hw!PermanentAddresses(x5.sta)
  PROVE  /\ perm \in Hw!Addresses /\ perm.origin # "user"
         /\ Hw!OtpAfterLoad(x5, perm) \in BOOLEAN
         /\ Hw!OtpAfterLoad(x5, perm) => perm.origin = "random"
<1>1. /\ x5.sta \in Hw!Addresses /\ x5.otp \in BOOLEAN /\ x5.sta.origin # "user"
      /\ x5.otp => x5.sta.origin = "random"
  BY DEF Hw!IInv, Hw!DataOK, Hw!Registers, Hw!AddrInv
<1>2. CASE x5.sta # Hw!NoAddr
  <2>1. perm = [x5.sta EXCEPT !.first = "08"]
    BY <1>2 DEF Hw!PermanentAddresses
  <2>2. perm \in Hw!Addresses /\ perm.origin = x5.sta.origin
    BY <1>1, <2>1 DEF Hw!Addresses
  <2>3. Hw!OtpAfterLoad(x5, perm) = x5.otp
    BY <1>2, Zenon DEF Hw!OtpAfterLoad
  <2> QED
    BY <1>1, <2>2, <2>3
<1>3. CASE x5.sta = Hw!NoAddr
  <2>1. \E o \in {"random", "eeprom"} : perm = Hw!Addr(o)
    BY <1>3 DEF Hw!PermanentAddresses
  <2>2. PICK o \in {"random", "eeprom"} : perm = [origin |-> o, first |-> "own"]
    BY <2>1 DEF Hw!Addr
  <2>3. perm \in Hw!Addresses /\ perm.origin = o
    BY <2>2 DEF Hw!Addresses
  <2>4. Hw!OtpAfterLoad(x5, perm)
           = (x1.eeprom /\ x1.type \in {"l1c", "l2c"} /\ perm.origin = "random")
    BY <1>3, Zenon DEF Hw!OtpAfterLoad
  <2> QED
    BY <2>2, <2>3, <2>4
<1> QED
  BY <1>2, <1>3

LEMMA HwNew ==
  /\ Hw!NewNetDev \in Hw!NetDevs /\ Hw!NewNetDev.mtu = 1500 /\ ~Hw!NewNetDev.running
  /\ \A perm \in Hw!Addresses :
        /\ Hw!NewRecord(perm) \in Hw!Records /\ Hw!NewRecord(perm).adv = "auto"
        /\ Hw!NewRecord(perm).wol = {} /\ Hw!NewRecord(perm).mac_addr = perm
        /\ Hw!NewRecord(perm).perm = perm /\ Hw!NewRecord(perm).max_frame = 1500
        /\ Hw!NewRecord(perm).rxbuf = Hw!RxBufSize(1500)
<1>1. PICK B : B = BOOLEAN
  OBVIOUS
<1>2. FALSE \in B /\ TRUE \in B
  BY <1>1
<1>3. Hw!NewNetDev \in Hw!NetDevs
  <2> DEFINE F(no) == [promisc |-> no, allmulti |-> no, mc |-> {}]
             N(no, yes) == [running |-> no, mtu |-> 1500, vlan |-> yes, flags |-> F(no)]
  <2>1. Hw!NewNetDev = N(FALSE, TRUE)
    BY Zenon DEF Hw!NewNetDev
  <2>2. ASSUME NEW no \in B, NEW yes \in B PROVE N(no, yes) \in Hw!NetDevs
    <3>1. F(no) \in Hw!FlagSets
      BY <1>1 DEF Hw!FlagSets
    <3> HIDE DEF F
    <3> QED
      BY <1>1, <3>1 DEF Hw!NetDevs
  <2> HIDE DEF N
  <2> QED
    BY <1>2, <2>1, <2>2, Zenon
<1>4. ASSUME NEW perm \in Hw!Addresses PROVE Hw!NewRecord(perm) \in Hw!Records
  <2> DEFINE N(no) == [adv |-> "auto", wol |-> {}, speed |-> 0, duplex |-> "full", carrier |-> no,
                       mac_addr |-> perm, perm |-> perm, max_frame |-> 1500,
                       rxbuf |-> Hw!RxBufSize(1500)]
  <2>1. Hw!NewRecord(perm) = N(FALSE)
    BY Zenon DEF Hw!NewRecord
  <2>2. ASSUME NEW no \in B PROVE N(no) \in Hw!Records
    <3>1. /\ "auto" \in Hw!Adverts /\ {} \in Hw!Wakeups /\ 0 \in Hw!Speeds
          /\ "full" \in Hw!Duplexes
      BY DEF Hw!Adverts, Hw!Wakeups, Hw!Speeds, Hw!Duplexes
    <3>2. Hw!RxBufSize(1500) \in Nat
      BY HwRxBufSize
    <3> QED
      BY <1>1, <3>1, <3>2 DEF Hw!Records
  <2> HIDE DEF N
  <2> QED
    BY <1>2, <2>1, <2>2, Zenon
<1>5. Hw!NewNetDev.mtu = 1500 /\ ~Hw!NewNetDev.running
  BY DEF Hw!NewNetDev
<1>6. ASSUME NEW perm \in Hw!Addresses
      PROVE  /\ Hw!NewRecord(perm).adv = "auto" /\ Hw!NewRecord(perm).wol = {}
             /\ Hw!NewRecord(perm).mac_addr = perm /\ Hw!NewRecord(perm).perm = perm
             /\ Hw!NewRecord(perm).max_frame = 1500
             /\ Hw!NewRecord(perm).rxbuf = Hw!RxBufSize(1500)
  BY DEF Hw!NewRecord
<1> QED
  BY <1>3, <1>4, <1>5, <1>6

LEMMA HwProbe ==
  ASSUME Hw!IInv, Hw!Probe
  PROVE  Hw!IInv'
<1>1. /\ x3 \in Hw!NetDevs /\ x4 \in Hw!Records /\ x5 \in Hw!Registers /\ x6 \in Hw!Phys
      /\ x8' \in 0 .. HwOps
  BY HwOp DEF Hw!IInv, Hw!DataOK, Hw!Probe
<1>2. PICK perm \in Hw!PermanentAddresses(x5.sta) :
         /\ x4' = Hw!NewRecord(perm)
         /\ x5' = [Hw!SetAddr(Hw!ResetMac(Hw!ResetPcie(x5)), perm) EXCEPT
                      !.otp = Hw!OtpAfterLoad(x5, perm)]
  BY Zenon DEF Hw!Probe
<1>9. x2 = "unbound" /\ x2' = "down" /\ UNCHANGED <<x1, x7>>
  BY DEF Hw!Probe
<1>3. x6' = Hw!PhyInit(Hw!PhyReset(x6), "auto") /\ x3' = Hw!NewNetDev
  BY DEF Hw!Probe
<1>4. PICK o \in BOOLEAN : /\ o = Hw!OtpAfterLoad(x5, perm) /\ (o => perm.origin = "random")
                           /\ perm \in Hw!Addresses /\ perm.origin # "user"
  BY <1>9, HwPermanent, Zenon
<1>5. x3' \in Hw!NetDevs /\ x3'.mtu = 1500
  BY <1>3, HwNew
<1>6. /\ x4' \in Hw!Records /\ x4'.adv = "auto" /\ x4'.wol = {} /\ x4'.mac_addr = perm
      /\ x4'.perm = perm
      /\ x4'.max_frame = 1500 /\ x4'.rxbuf = Hw!RxBufSize(1500)
  BY <1>2, <1>4, HwNew
<1>7. /\ x6' \in Hw!Phys /\ x6'.adv = Hw!Advertised("auto") /\ x6'.power = "on"
      /\ x6'.ier = {"up", "down"}
  <2>1. "auto" \in Hw!Adverts
    BY DEF Hw!Adverts
  <2> QED
    BY <1>1, <1>3, <2>1, HwPhyInit
<1>8. /\ x5' \in Hw!Registers /\ x5'.aspm = {} /\ x5'.wol = {} /\ x5'.sta = perm
      /\ (x5'.otp <=> o)
  <2> DEFINE r == Hw!SetAddr(Hw!ResetMac(Hw!ResetPcie(x5)), perm)
  <2>1. r \in Hw!Registers /\ r.aspm = {} /\ r.wol = {} /\ r.sta = perm
    <3>1. PICK r1 \in Hw!Registers : r1 = Hw!ResetPcie(x5) /\ r1.aspm = {} /\ r1.wol = {}
      BY <1>1, HwResetPcie
    <3>2. PICK r2 \in Hw!Registers : r2 = Hw!ResetMac(r1) /\ r2.aspm = {} /\ r2.wol = {}
      BY <3>1, HwResetMac
    <3> QED
      BY <1>4, <3>1, <3>2, HwSetAddr
  <2>2. x5' = [r EXCEPT !.otp = o]
    BY <1>2, <1>4, Zenon
  <2> HIDE DEF r
  <2> QED
    BY <2>1, <2>2 DEF Hw!Registers
<1>10. Hw!DataOK'
  BY <1>1, <1>9, <1>5, <1>6, <1>7, <1>8 DEF Hw!IInv, Hw!DataOK
<1>11. Hw!InactiveNoAspm'
  BY <1>8 DEF Hw!InactiveNoAspm
<1>12. Hw!WakesAsAsked'
  BY <1>9, <1>8 DEF Hw!WakesAsAsked
<1>13. Hw!AdvertisesAsAsked'
  BY <1>9, <1>6, <1>7 DEF Hw!AdvertisesAsAsked, Hw!Advertised, Hw!Giga
<1>14. Hw!MacInv'
  BY <1>9, <1>5, <1>6 DEF Hw!MacInv, Hw!RxBufSize, Hw!Overhead
<1>15. Hw!RunningInv'
  BY <1>9 DEF Hw!RunningInv
<1>16. Hw!AddrInv'
  BY <1>9, <1>4, <1>6, <1>8 DEF Hw!AddrInv, Hw!OtpClockOff
<1> QED
  BY <1>10, <1>11, <1>12, <1>13, <1>14, <1>15, <1>16 DEF Hw!IInv

LEMMA HwRemove ==
  ASSUME Hw!IInv, Hw!Remove
  PROVE  Hw!IInv'
<1>1. /\ x3 \in Hw!NetDevs /\ x4 \in Hw!Records /\ x5 \in Hw!Registers /\ x6 \in Hw!Phys
      /\ x8' \in 0 .. HwOps
  BY HwOp DEF Hw!IInv, Hw!DataOK, Hw!Remove
<1>2. /\ x2 \in {"down", "up"} /\ x2' = "unbound" /\ UNCHANGED <<x1, x7>>
      /\ x5' = Hw!SetAddr(Hw!PowerOff(IF x2 = "up" THEN Hw!DownReg(x5) ELSE x5), x4.perm)
      /\ x6' = [x6 EXCEPT !.power = "iddq", !.done = FALSE]
      /\ x3' = [x3 EXCEPT !.running = FALSE]
      /\ x4' = IF x2 = "up" THEN Hw!DownHw(x4) ELSE x4
  BY Zenon DEF Hw!Remove
<1>3. x3' \in Hw!NetDevs
  BY <1>1, <1>2, HwRunning
<1>4. x4' \in Hw!Records /\ x4'.perm = x4.perm
  BY <1>1, <1>2, HwDownRecord DEF Hw!SameRecord
<1>5. x6' \in Hw!Phys
  BY <1>1, <1>2, HwPhyOff
<1>6. x5' \in Hw!Registers /\ x5'.sta = x4.perm /\ x5'.otp = x5.otp
  <2>1. PICK r \in Hw!Registers : /\ r = IF x2 = "up" THEN Hw!DownReg(x5) ELSE x5
                                  /\ r.otp = x5.otp
    BY <1>1, HwDown
  <2>2. PICK r1 \in Hw!Registers : r1 = Hw!StopMac(r) /\ r1.otp = x5.otp
    <3>1. {} \in SUBSET {"tx", "rx"}
      OBVIOUS
    <3>2. [r EXCEPT !.mac = {}] \in Hw!Registers /\ [r EXCEPT !.mac = {}].otp = r.otp
      BY <3>1, HwSetMac
    <3> QED
      BY <2>1, <3>2 DEF Hw!StopMac
  <2>3. PICK w \in Hw!Wakeups : w = {}
    BY DEF Hw!Wakeups
  <2>4. PICK r2 \in Hw!Registers : r2 = Hw!PowerOff(r) /\ r2.otp = x5.otp
    <3>1. [r1 EXCEPT !.wol = w] \in Hw!Registers /\ [r1 EXCEPT !.wol = w].otp = r1.otp
      BY HwPutWol
    <3> QED
      BY <2>2, <2>3, <3>1 DEF Hw!PowerOff
  <2>5. x4.perm \in Hw!Addresses /\ x5' = Hw!SetAddr(r2, x4.perm)
    BY <1>1, <1>2, <2>1, <2>4 DEF Hw!Records
  <2> QED
    BY <2>4, <2>5, HwSetAddr
<1>7. Hw!DataOK'
  BY <1>1, <1>2, <1>3, <1>4, <1>5, <1>6 DEF Hw!IInv, Hw!DataOK
<1>8. Hw!InactiveNoAspm'
  BY <1>1, <1>2, <1>3, <1>4, <1>5, <1>6 DEF Hw!IInv, Hw!InactiveNoAspm
<1>9. Hw!WakesAsAsked'
  BY <1>1, <1>2, <1>3, <1>4, <1>5, <1>6 DEF Hw!IInv, Hw!WakesAsAsked, Hw!AdvertisesAsAsked,
     Hw!Present, Hw!SameRecord
<1>10. Hw!AdvertisesAsAsked'
  BY <1>1, <1>2, <1>3, <1>4, <1>5, <1>6 DEF Hw!IInv, Hw!AdvertisesAsAsked, Hw!Present,
     Hw!Advertised, Hw!Giga, Hw!SameRecord
<1>11. Hw!MacInv'
  BY <1>1, <1>2, <1>3, <1>4, <1>5, <1>6 DEF Hw!IInv, Hw!MacInv, Hw!Programmed, Hw!SameRecord
<1>12. Hw!RunningInv'
  BY <1>1, <1>2, <1>3, <1>4, <1>5, <1>6 DEF Hw!IInv, Hw!RunningInv, Hw!DataOK, Hw!NetDevs
<1>13. Hw!AddrInv'
  BY <1>1, <1>2, <1>3, <1>4, <1>5, <1>6 DEF Hw!IInv, Hw!AddrInv, Hw!OtpClockOff, Hw!SameRecord,
     Hw!Present
<1> QED
  BY <1>7, <1>8, <1>9, <1>10, <1>11, <1>12, <1>13 DEF Hw!IInv

LEMMA HwSetFeatures ==
  ASSUME Hw!IInv, Hw!SetFeatures
  PROVE  Hw!IInv'
<1>1. /\ x3 \in Hw!NetDevs /\ x4 \in Hw!Records /\ x5 \in Hw!Registers /\ x6 \in Hw!Phys
      /\ x8' \in 0 .. HwOps
  BY HwOp DEF Hw!IInv, Hw!DataOK, Hw!SetFeatures
<1>2. PICK v \in BOOLEAN : v = (~x3.vlan)
  OBVIOUS
<1>3. /\ Hw!Present /\ UNCHANGED <<x1, x2, x4, x6, x7>>
      /\ x3' = [x3 EXCEPT !.vlan = v] /\ x5' = [x5 EXCEPT !.vlan = x3'.vlan]
  BY <1>2, Zenon DEF Hw!SetFeatures
<1>4. /\ x3' \in Hw!NetDevs /\ x3'.vlan = v /\ x3'.mtu = x3.mtu /\ x3'.flags = x3.flags
      /\ x3'.running = x3.running
  BY <1>1, <1>3 DEF Hw!NetDevs
<1>5. x5' = [x5 EXCEPT !.vlan = v]
  BY <1>3, <1>4
<1>6. /\ x5' \in Hw!Registers /\ x5'.vlan = v /\ x5'.aspm = x5.aspm /\ x5'.wol = x5.wol
      /\ x5'.sta = x5.sta /\ x5'.otp = x5.otp /\ x5'.filter = x5.filter /\ x5'.mtu = x5.mtu
      /\ x5'.rxbuf = x5.rxbuf /\ x5'.mac = x5.mac
  BY <1>1, <1>5 DEF Hw!Registers
<1>7. Hw!DataOK'
  BY <1>1, <1>2, <1>3, <1>4, <1>5, <1>6 DEF Hw!IInv, Hw!DataOK
<1>8. Hw!InactiveNoAspm'
  BY <1>1, <1>2, <1>3, <1>4, <1>5, <1>6 DEF Hw!IInv, Hw!InactiveNoAspm
<1>9. Hw!WakesAsAsked'
  BY <1>1, <1>2, <1>3, <1>4, <1>5, <1>6 DEF Hw!IInv, Hw!WakesAsAsked, Hw!AdvertisesAsAsked,
     Hw!Present, Hw!SameRecord
<1>10. Hw!AdvertisesAsAsked'
  BY <1>1, <1>2, <1>3, <1>4, <1>5, <1>6 DEF Hw!IInv, Hw!AdvertisesAsAsked, Hw!Present,
     Hw!Advertised, Hw!Giga, Hw!SameRecord
<1>11. Hw!MacInv'
  BY <1>1, <1>2, <1>3, <1>4, <1>5, <1>6 DEF Hw!IInv, Hw!MacInv, Hw!Programmed, Hw!SameRecord
<1>12. Hw!RunningInv'
  BY <1>1, <1>2, <1>3, <1>4, <1>5, <1>6 DEF Hw!IInv, Hw!RunningInv, Hw!DataOK, Hw!NetDevs
<1>13. Hw!AddrInv'
  BY <1>1, <1>2, <1>3, <1>4, <1>5, <1>6 DEF Hw!IInv, Hw!AddrInv, Hw!OtpClockOff, Hw!SameRecord,
     Hw!Present
<1> QED
  BY <1>7, <1>8, <1>9, <1>10, <1>11, <1>12, <1>13 DEF Hw!IInv

LEMMA HwGetEeprom ==
  ASSUME Hw!IInv, Hw!GetEeprom
  PROVE  Hw!IInv'
<1>1. /\ x3 \in Hw!NetDevs /\ x4 \in Hw!Records /\ x5 \in Hw!Registers /\ x6 \in Hw!Phys
      /\ x8' \in 0 .. HwOps
  BY HwOp DEF Hw!IInv, Hw!DataOK, Hw!GetEeprom
<1>2. Hw!Present /\ UNCHANGED <<x1, x2, x3, x4, x6, x7>> /\ x5' = Hw!ReadEeprom(x5)
  BY DEF Hw!GetEeprom
<1>3. x5' = x5
  <2>1. PICK yes \in BOOLEAN : yes = TRUE
    OBVIOUS
  <2>2. x5' = [[x5 EXCEPT !.otp = yes] EXCEPT !.otp = x5.otp]
    BY <1>2, <2>1, Zenon DEF Hw!ReadEeprom
  <2> QED
    BY <1>1, <2>2 DEF Hw!Registers
<1>4. Hw!DataOK'
  BY <1>1, <1>2, <1>3 DEF Hw!IInv, Hw!DataOK
<1>5. Hw!InactiveNoAspm'
  BY <1>1, <1>2, <1>3 DEF Hw!IInv, Hw!InactiveNoAspm
<1>6. Hw!WakesAsAsked'
  BY <1>1, <1>2, <1>3 DEF Hw!IInv, Hw!WakesAsAsked, Hw!AdvertisesAsAsked, Hw!Present,
     Hw!SameRecord
<1>7. Hw!AdvertisesAsAsked'
  BY <1>1, <1>2, <1>3 DEF Hw!IInv, Hw!AdvertisesAsAsked, Hw!Present, Hw!Advertised, Hw!Giga,
     Hw!SameRecord
<1>8. Hw!MacInv'
  BY <1>1, <1>2, <1>3 DEF Hw!IInv, Hw!MacInv, Hw!Programmed, Hw!SameRecord
<1>9. Hw!RunningInv'
  BY <1>1, <1>2, <1>3 DEF Hw!IInv, Hw!RunningInv, Hw!DataOK, Hw!NetDevs
<1>10. Hw!AddrInv'
  BY <1>1, <1>2, <1>3 DEF Hw!IInv, Hw!AddrInv, Hw!OtpClockOff, Hw!SameRecord, Hw!Present
<1> QED
  BY <1>4, <1>5, <1>6, <1>7, <1>8, <1>9, <1>10 DEF Hw!IInv

LEMMA HwSetRxMode ==
  ASSUME Hw!IInv, NEW fl \in Hw!FlagSets, Hw!SetRxMode(fl)
  PROVE  Hw!IInv'
<1>1. /\ x3 \in Hw!NetDevs /\ x4 \in Hw!Records /\ x5 \in Hw!Registers /\ x6 \in Hw!Phys
      /\ x8' \in 0 .. HwOps
  BY HwOp DEF Hw!IInv, Hw!DataOK, Hw!SetRxMode
<1>2. /\ x3.running /\ UNCHANGED <<x1, x2, x4, x6, x7>> /\ x3' = [x3 EXCEPT !.flags = fl]
      /\ x5' = IF x2 = "up" THEN Hw!SetMulti(x5, fl) ELSE x5
  BY DEF Hw!SetRxMode
<1>3. /\ x3' \in Hw!NetDevs /\ x3'.flags = fl /\ x3'.mtu = x3.mtu /\ x3'.vlan = x3.vlan
      /\ x3'.running = x3.running
  BY <1>1, <1>2 DEF Hw!NetDevs
<1>4. x2 # "up" => x5' = x5
  BY <1>2
<1>5. x2 = "up" => x5'.filter.promisc = fl.promisc /\ x5'.filter.hash = fl.mc
                   /\ (fl.promisc \/ x5'.filter.allmulti = fl.allmulti)
  BY <1>1, <1>2, HwSetMulti
<1>6. /\ x5' \in Hw!Registers /\ x5'.vlan = x5.vlan /\ x5'.aspm = x5.aspm /\ x5'.wol = x5.wol
      /\ x5'.sta = x5.sta /\ x5'.otp = x5.otp /\ x5'.mtu = x5.mtu
      /\ x5'.rxbuf = x5.rxbuf /\ x5'.mac = x5.mac
  BY <1>1, <1>2, HwSetMulti
<1>7. Hw!DataOK'
  BY <1>1, <1>2, <1>3, <1>4, <1>5, <1>6 DEF Hw!IInv, Hw!DataOK
<1>8. Hw!InactiveNoAspm'
  BY <1>1, <1>2, <1>3, <1>4, <1>5, <1>6 DEF Hw!IInv, Hw!InactiveNoAspm
<1>9. Hw!WakesAsAsked'
  BY <1>1, <1>2, <1>3, <1>4, <1>5, <1>6 DEF Hw!IInv, Hw!WakesAsAsked, Hw!AdvertisesAsAsked,
     Hw!Present, Hw!SameRecord
<1>10. Hw!AdvertisesAsAsked'
  BY <1>1, <1>2, <1>3, <1>4, <1>5, <1>6 DEF Hw!IInv, Hw!AdvertisesAsAsked, Hw!Present,
     Hw!Advertised, Hw!Giga, Hw!SameRecord
<1>11. Hw!MacInv'
  BY <1>1, <1>2, <1>3, <1>4, <1>5, <1>6 DEF Hw!IInv, Hw!MacInv, Hw!Programmed, Hw!SameRecord
<1>12. Hw!RunningInv'
  BY <1>1, <1>2, <1>3, <1>4, <1>5, <1>6 DEF Hw!IInv, Hw!RunningInv, Hw!DataOK, Hw!NetDevs
<1>13. Hw!AddrInv'
  BY <1>1, <1>2, <1>3, <1>4, <1>5, <1>6 DEF Hw!IInv, Hw!AddrInv, Hw!OtpClockOff, Hw!SameRecord,
     Hw!Present
<1> QED
  BY <1>7, <1>8, <1>9, <1>10, <1>11, <1>12, <1>13 DEF Hw!IInv

LEMMA HwLinkChange ==
  ASSUME Hw!IInv, NEW p, NEW others, Hw!LinkChange(p, others)
  PROVE  /\ x4' \in Hw!Records /\ Hw!SameRecord(x4', x4) /\ x5' \in Hw!Registers
         /\ x5'.sta = x5.sta /\ x5'.otp = x5.otp
         /\ x2 = "up" => Hw!Programmed(x5', x3, x4)
         /\ x2 # "up" => x5' = x5
<1> DEFINE l == Hw!Negotiate(p, others)
           h == IF l = Hw!NoLink /\ x4.carrier THEN [x4 EXCEPT !.carrier = FALSE, !.speed = 0] ELSE x4
           C == Hw!CheckLinkStatus(h, x5, x3, l)
<1>1. x3 \in Hw!NetDevs /\ x4 \in Hw!Records /\ x5 \in Hw!Registers
  BY DEF Hw!IInv, Hw!DataOK
<1>2. IF x2 = "up" /\ l # Hw!Link THEN x4' = C.hw /\ x5' = C.reg ELSE UNCHANGED <<x4, x5>>
  BY Zenon DEF Hw!LinkChange
<1>3. h \in Hw!Records /\ Hw!SameRecord(h, x4)
  <2>1. PICK no \in BOOLEAN, s \in Hw!Speeds : no = FALSE /\ s = 0
    BY ZenonT(40) DEF Hw!Speeds
  <2>2. PICK g : g = [x4 EXCEPT !.carrier = no, !.speed = s]
    OBVIOUS
  <2>3. g \in Hw!Records /\ Hw!SameRecord(g, x4)
    BY <1>1, <2>2 DEF Hw!Records, Hw!SameRecord
  <2>4. h = x4 \/ h = g
    BY <2>1, <2>2, Zenon
  <2> HIDE DEF h
  <2> QED
    BY <1>1, <2>3, <2>4 DEF Hw!SameRecord
<1> HIDE DEF l, h
<1>4. CASE x2 = "up" /\ l # Hw!Link
  <2>1. Hw!Programmed(x5, x3, h)
    BY <1>3, <1>4 DEF Hw!IInv, Hw!MacInv, Hw!Programmed, Hw!SameRecord
  <2>2. /\ C.hw \in Hw!Records /\ Hw!SameRecord(C.hw, h) /\ C.reg \in Hw!Registers
        /\ Hw!Programmed(C.reg, x3, h) /\ C.reg.sta = x5.sta /\ C.reg.otp = x5.otp
    BY <1>1, <1>3, <2>1, HwCheckLink
  <2> HIDE DEF C
  <2> QED
    BY <1>2, <1>3, <1>4, <2>2 DEF Hw!Programmed, Hw!SameRecord
<1>5. CASE ~(x2 = "up" /\ l # Hw!Link)
  <2>1. UNCHANGED <<x4, x5>>
    BY <1>2, <1>5
  <2>2. x2 = "up" => Hw!Programmed(x5, x3, x4)
    BY DEF Hw!IInv, Hw!MacInv
  <2> QED
    BY <1>1, <2>1, <2>2 DEF Hw!SameRecord
<1> QED
  BY <1>4, <1>5

LEMMA HwPsLink ==
  ASSUME NEW h \in Hw!Records, NEW p \in Hw!Phys, NEW b \in BOOLEAN
  PROVE  /\ Hw!PsLink(h, p, b).hw \in Hw!Records /\ Hw!SameRecord(Hw!PsLink(h, p, b).hw, h)
         /\ Hw!PsLink(h, p, b).phy \in Hw!Phys /\ Hw!PsLink(h, p, b).phy.power = p.power
<1>1. ASSUME NEW s \in Hw!Speeds, NEW d \in Hw!Duplexes
      PROVE  [h EXCEPT !.speed = s, !.duplex = d] \in Hw!Records
             /\ Hw!SameRecord([h EXCEPT !.speed = s, !.duplex = d], h)
  BY DEF Hw!Records, Hw!SameRecord
<1>2. 0 \in Hw!Speeds /\ 10 \in Hw!Speeds /\ "half" \in Hw!Duplexes /\ "full" \in Hw!Duplexes
  BY DEF Hw!Speeds, Hw!Duplexes
<1>3. CASE Hw!Link = Hw!NoLink
  <2> DEFINE g == [h EXCEPT !.speed = 10, !.duplex = "half"]
  <2>1. Hw!PsLink(h, p, b) = [hw |-> g, phy |-> p]
    BY <1>3, Zenon DEF Hw!PsLink
  <2>2. g \in Hw!Records /\ Hw!SameRecord(g, h)
    BY <1>1, <1>2
  <2> HIDE DEF g
  <2> QED
    BY <2>1, <2>2
<1>4. CASE Hw!Link # Hw!NoLink
  <2> DEFINE m == Hw!PsMode(x7)
             q == Hw!RestartAutoneg(p, m)
             slow == [q EXCEPT !.done = b]
             l == Hw!Negotiate(slow, x7)
             g == IF l = Hw!NoLink THEN [h EXCEPT !.speed = 0, !.duplex = "full"]
                  ELSE [h EXCEPT !.speed = Hw!Speed(l), !.duplex = Hw!Duplex(l)]
  <2>1. Hw!PsLink(h, p, b) = [phy |-> slow, hw |-> g]
    BY <1>4, Zenon DEF Hw!PsLink
  <2>2. m \in Hw!Adverts
    BY DEF Hw!PsMode, Hw!Adverts, Hw!Modes, Hw!FastModes
  <2>3. q \in Hw!Phys /\ q.power = p.power
    BY <2>2, HwAutoneg
  <2>4. slow \in Hw!Phys /\ slow.power = p.power
    BY <2>3, HwPhyDone
  <2>5. Hw!Speed(l) \in Hw!Speeds /\ Hw!Duplex(l) \in Hw!Duplexes
    BY DEF Hw!Speed, Hw!Duplex, Hw!Speeds, Hw!Duplexes
  <2> HIDE DEF l, slow
  <2>6. g \in Hw!Records /\ Hw!SameRecord(g, h)
    <3>1. CASE l = Hw!NoLink
      BY <1>1, <1>2, <3>1
    <3>2. CASE l # Hw!NoLink
      BY <1>1, <2>5, <3>2
    <3> QED
      BY <3>1, <3>2
  <2> HIDE DEF g
  <2> QED
    BY <2>1, <2>4, <2>6
<1> QED
  BY <1>3, <1>4

LEMMA HwPowerSaving ==
  ASSUME NEW r \in Hw!Registers, NEW p \in Hw!Phys, NEW w \in Hw!Wakeups, p.power = "on"
  PROVE  /\ Hw!PowerSaving(r, p, w).reg \in Hw!Registers
         /\ Hw!PowerSaving(r, p, w).phy \in Hw!Phys
         /\ Hw!PowerSaving(r, p, w).reg.aspm = r.aspm /\ Hw!PowerSaving(r, p, w).reg.sta = r.sta
         /\ Hw!PowerSaving(r, p, w).reg.otp = r.otp /\ Hw!PowerSaving(r, p, w).reg.wol = w
         /\ (Hw!PowerSaving(r, p, w).phy.power = "on") <=> (w # {})
         /\ ("rx" \in Hw!PowerSaving(r, p, w).reg.mac) <=> ("magic" \in w)
         /\ "tx" \notin Hw!PowerSaving(r, p, w).reg.mac
<1>1. CASE w = {}
  <2> DEFINE s == [r EXCEPT !.mac = {}]
             t == [s EXCEPT !.wol = w]
             q == [p EXCEPT !.power = "iddq", !.done = FALSE]
  <2>1. Hw!PowerSaving(r, p, w) = [reg |-> t, phy |-> q]
    BY <1>1, Zenon DEF Hw!PowerSaving, Hw!PowerOff, Hw!StopMac
  <2>2. {} \in SUBSET {"tx", "rx"}
    OBVIOUS
  <2>3. /\ s \in Hw!Registers /\ s.aspm = r.aspm /\ s.sta = r.sta /\ s.otp = r.otp /\ s.mac = {}
    BY <2>2, HwSetMac
  <2> HIDE DEF s
  <2>4. /\ t \in Hw!Registers /\ t.aspm = r.aspm /\ t.sta = r.sta /\ t.otp = r.otp /\ t.mac = {}
        /\ t.wol = w
    BY <2>3, HwPutWol
  <2>5. q \in Hw!Phys /\ q.power = "iddq"
    BY HwPhyOff
  <2> HIDE DEF t, q
  <2> QED
    BY <1>1, <2>1, <2>4, <2>5
<1>2. CASE w # {}
  <2> DEFINE v == IF "magic" \in w THEN {"rx"} ELSE {}
             t == [r EXCEPT !.mac = v, !.wol = w]
             q == IF "link" \in w THEN [p EXCEPT !.ier = {"up"}] ELSE p
  <2>1. Hw!PowerSaving(r, p, w) = [reg |-> t, phy |-> q]
    BY <1>2, Zenon DEF Hw!PowerSaving
  <2>2. v \in SUBSET {"tx", "rx"} /\ (("rx" \in v) <=> ("magic" \in w)) /\ "tx" \notin v
    OBVIOUS
  <2> HIDE DEF v
  <2>3. /\ t \in Hw!Registers /\ t.aspm = r.aspm /\ t.sta = r.sta /\ t.otp = r.otp /\ t.mac = v
        /\ t.wol = w
    BY <2>2 DEF Hw!Registers
  <2>4. q \in Hw!Phys /\ q.power = "on"
    BY DEF Hw!Phys
  <2> HIDE DEF t, q
  <2> QED
    BY <1>2, <2>1, <2>2, <2>3, <2>4
<1> QED
  BY <1>1, <1>2

LEMMA HwPlug ==
  ASSUME Hw!IInv, Hw!Plug
  PROVE  Hw!IInv'
<1>1. /\ x3 \in Hw!NetDevs /\ x4 \in Hw!Records /\ x5 \in Hw!Registers /\ x6 \in Hw!Phys
      /\ x8' \in 0 .. HwOps
  BY HwOp DEF Hw!IInv, Hw!DataOK, Hw!Plug
<1>2. PICK others \in HwPartners \cup {{}} :
         /\ x7' = others /\ x6' = [x6 EXCEPT !.done = FALSE] /\ Hw!LinkChange(x6', others)
  BY Zenon DEF Hw!Plug
<1>3. /\ x4' \in Hw!Records /\ Hw!SameRecord(x4', x4) /\ x5' \in Hw!Registers
      /\ x5'.sta = x5.sta /\ x5'.otp = x5.otp
      /\ x2 = "up" => Hw!Programmed(x5', x3, x4)
      /\ x2 # "up" => x5' = x5
  BY <1>2, HwLinkChange
<1>4. x6' \in Hw!Phys /\ x6'.adv = x6.adv /\ x6'.power = x6.power /\ x6'.ier = x6.ier
  <2>1. PICK no \in BOOLEAN : no = FALSE
    OBVIOUS
  <2> QED
    BY <1>1, <1>2, <2>1, HwPhyDone, Zenon
<1>5. x7' \subseteq Hw!Modes
  BY <1>2, HwPartAssumption DEF Hw!HwAssumption
<1>6. UNCHANGED <<x1, x2, x3>>
  BY DEF Hw!Plug
<1>7. x2 = "up" => x5'.wol = {}
  BY <1>3 DEF Hw!Programmed
<1>8. Hw!DataOK'
  BY <1>1, <1>2, <1>3, <1>4, <1>5, <1>6, <1>7 DEF Hw!IInv, Hw!DataOK
<1>9. Hw!InactiveNoAspm'
  BY <1>1, <1>2, <1>3, <1>4, <1>5, <1>6, <1>7 DEF Hw!IInv, Hw!InactiveNoAspm
<1>10. Hw!WakesAsAsked'
  BY <1>1, <1>2, <1>3, <1>4, <1>5, <1>6, <1>7 DEF Hw!IInv, Hw!WakesAsAsked,
     Hw!AdvertisesAsAsked, Hw!Present, Hw!SameRecord
<1>11. Hw!AdvertisesAsAsked'
  BY <1>1, <1>2, <1>3, <1>4, <1>5, <1>6, <1>7 DEF Hw!IInv, Hw!AdvertisesAsAsked, Hw!Present,
     Hw!Advertised, Hw!Giga, Hw!SameRecord
<1>12. Hw!MacInv'
  BY <1>1, <1>2, <1>3, <1>4, <1>5, <1>6, <1>7 DEF Hw!IInv, Hw!MacInv, Hw!Programmed,
     Hw!SameRecord
<1>13. Hw!RunningInv'
  BY <1>1, <1>2, <1>3, <1>4, <1>5, <1>6, <1>7 DEF Hw!IInv, Hw!RunningInv, Hw!DataOK, Hw!NetDevs
<1>14. Hw!AddrInv'
  BY <1>1, <1>2, <1>3, <1>4, <1>5, <1>6, <1>7 DEF Hw!IInv, Hw!AddrInv, Hw!OtpClockOff,
     Hw!SameRecord, Hw!Present
<1> QED
  BY <1>8, <1>9, <1>10, <1>11, <1>12, <1>13, <1>14 DEF Hw!IInv

LEMMA HwNegotiationDone ==
  ASSUME Hw!IInv, Hw!NegotiationDone
  PROVE  Hw!IInv'
<1>1. /\ x3 \in Hw!NetDevs /\ x4 \in Hw!Records /\ x5 \in Hw!Registers /\ x6 \in Hw!Phys
  BY DEF Hw!IInv, Hw!DataOK
<1>2. x6' = [x6 EXCEPT !.done = TRUE] /\ Hw!LinkChange(x6', x7)
  BY Zenon DEF Hw!NegotiationDone
<1>3. /\ x4' \in Hw!Records /\ Hw!SameRecord(x4', x4) /\ x5' \in Hw!Registers
      /\ x5'.sta = x5.sta /\ x5'.otp = x5.otp
      /\ x2 = "up" => Hw!Programmed(x5', x3, x4)
      /\ x2 # "up" => x5' = x5
  BY <1>2, HwLinkChange
<1>4. x6' \in Hw!Phys /\ x6'.adv = x6.adv /\ x6'.power = x6.power /\ x6'.ier = x6.ier
  <2>1. PICK yes \in BOOLEAN : yes = TRUE
    OBVIOUS
  <2> QED
    BY <1>1, <1>2, <2>1, HwPhyDone, Zenon
<1>5. UNCHANGED <<x1, x2, x3, x7, x8>>
  BY DEF Hw!NegotiationDone
<1>6. x2 = "up" => x5'.wol = {}
  BY <1>3 DEF Hw!Programmed
<1>7. Hw!DataOK'
  BY <1>1, <1>2, <1>3, <1>4, <1>5, <1>6 DEF Hw!IInv, Hw!DataOK
<1>8. Hw!InactiveNoAspm'
  BY <1>1, <1>2, <1>3, <1>4, <1>5, <1>6 DEF Hw!IInv, Hw!InactiveNoAspm
<1>9. Hw!WakesAsAsked'
  BY <1>1, <1>2, <1>3, <1>4, <1>5, <1>6 DEF Hw!IInv, Hw!WakesAsAsked, Hw!AdvertisesAsAsked,
     Hw!Present, Hw!SameRecord
<1>10. Hw!AdvertisesAsAsked'
  BY <1>1, <1>2, <1>3, <1>4, <1>5, <1>6 DEF Hw!IInv, Hw!AdvertisesAsAsked, Hw!Present,
     Hw!Advertised, Hw!Giga, Hw!SameRecord
<1>11. Hw!MacInv'
  BY <1>1, <1>2, <1>3, <1>4, <1>5, <1>6 DEF Hw!IInv, Hw!MacInv, Hw!Programmed, Hw!SameRecord
<1>12. Hw!RunningInv'
  BY <1>1, <1>2, <1>3, <1>4, <1>5, <1>6 DEF Hw!IInv, Hw!RunningInv, Hw!DataOK, Hw!NetDevs
<1>13. Hw!AddrInv'
  BY <1>1, <1>2, <1>3, <1>4, <1>5, <1>6 DEF Hw!IInv, Hw!AddrInv, Hw!OtpClockOff, Hw!SameRecord,
     Hw!Present
<1> QED
  BY <1>7, <1>8, <1>9, <1>10, <1>11, <1>12, <1>13 DEF Hw!IInv

LEMMA HwChangeMtu ==
  ASSUME Hw!IInv, NEW mtu \in Nat, Hw!ChangeMtu(mtu)
  PROVE  Hw!IInv'
<1>1. /\ x3 \in Hw!NetDevs /\ x4 \in Hw!Records /\ x5 \in Hw!Registers /\ x6 \in Hw!Phys
      /\ x8' \in 0 .. HwOps
  BY HwOp DEF Hw!IInv, Hw!DataOK, Hw!ChangeMtu
<1> DEFINE h == [Hw!DownHw(x4) EXCEPT !.max_frame = mtu, !.rxbuf = Hw!RxBufSize(mtu)]
           U == Hw!Up(h, Hw!DownReg(x5), x3', Hw!Link)
<1>2. /\ x2 = "up" /\ UNCHANGED <<x1, x2, x6, x7>> /\ x3' = [x3 EXCEPT !.mtu = mtu]
      /\ x4' = U.hw /\ x5' = U.reg
  BY DEF Hw!ChangeMtu
<1>3. /\ x3' \in Hw!NetDevs /\ x3'.mtu = mtu /\ x3'.running = x3.running
  BY <1>1, <1>2 DEF Hw!NetDevs
<1>4. /\ h \in Hw!Records /\ h.max_frame = mtu /\ h.rxbuf = Hw!RxBufSize(mtu) /\ h.adv = x4.adv
      /\ h.wol = x4.wol /\ h.mac_addr = x4.mac_addr /\ h.perm = x4.perm
  <2>1. PICK g \in Hw!Records : g = Hw!DownHw(x4) /\ Hw!SameRecord(g, x4)
    BY <1>1, HwDownRecord
  <2>2. PICK size \in Nat : size = Hw!RxBufSize(mtu)
    BY HwRxBufSize
  <2>3. h = [g EXCEPT !.max_frame = mtu, !.rxbuf = size]
    BY <2>1, <2>2, Zenon
  <2> HIDE DEF h
  <2> QED
    BY <2>1, <2>2, <2>3 DEF Hw!Records, Hw!SameRecord
<1>5. /\ Hw!DownReg(x5) \in Hw!Registers /\ Hw!DownReg(x5).sta = x5.sta
      /\ Hw!DownReg(x5).otp = x5.otp
  BY <1>1, HwDown
<1> HIDE DEF h
<1>6. /\ x4' \in Hw!Records /\ Hw!SameRecord(x4', h) /\ x5' \in Hw!Registers
      /\ Hw!Programmed(x5', x3', h) /\ x5'.sta = x5.sta /\ x5'.otp = x5.otp
  <2>1. /\ U.hw \in Hw!Records /\ Hw!SameRecord(U.hw, h) /\ U.reg \in Hw!Registers
        /\ Hw!Programmed(U.reg, x3', h) /\ U.reg.sta = Hw!DownReg(x5).sta
        /\ U.reg.otp = Hw!DownReg(x5).otp
    BY <1>3, <1>4, <1>5, HwUp
  <2> HIDE DEF U
  <2> QED
    BY <1>2, <1>5, <2>1
<1>7. x5'.wol = {}
  BY <1>6 DEF Hw!Programmed
<1>8. Hw!DataOK'
  BY <1>1, <1>2, <1>3, <1>4, <1>5, <1>6, <1>7 DEF Hw!IInv, Hw!DataOK
<1>9. Hw!InactiveNoAspm'
  BY <1>1, <1>2, <1>3, <1>4, <1>5, <1>6, <1>7 DEF Hw!IInv, Hw!InactiveNoAspm
<1>10. Hw!WakesAsAsked'
  BY <1>1, <1>2, <1>3, <1>4, <1>5, <1>6, <1>7 DEF Hw!IInv, Hw!WakesAsAsked,
     Hw!AdvertisesAsAsked, Hw!Present, Hw!SameRecord
<1>11. Hw!AdvertisesAsAsked'
  BY <1>1, <1>2, <1>3, <1>4, <1>5, <1>6, <1>7 DEF Hw!IInv, Hw!AdvertisesAsAsked, Hw!Present,
     Hw!Advertised, Hw!Giga, Hw!SameRecord
<1>12. Hw!MacInv'
  BY <1>1, <1>2, <1>3, <1>4, <1>5, <1>6, <1>7 DEF Hw!IInv, Hw!MacInv, Hw!Programmed,
     Hw!SameRecord
<1>13. Hw!RunningInv'
  BY <1>1, <1>2, <1>3, <1>4, <1>5, <1>6, <1>7 DEF Hw!IInv, Hw!RunningInv, Hw!DataOK, Hw!NetDevs
<1>14. Hw!AddrInv'
  BY <1>1, <1>2, <1>3, <1>4, <1>5, <1>6, <1>7 DEF Hw!IInv, Hw!AddrInv, Hw!OtpClockOff,
     Hw!SameRecord, Hw!Present
<1> QED
  BY <1>8, <1>9, <1>10, <1>11, <1>12, <1>13, <1>14 DEF Hw!IInv

LEMMA HwSetSettings ==
  ASSUME Hw!IInv, NEW ad \in HwSettings, Hw!SetSettings(ad)
  PROVE  Hw!IInv'
<1>1. /\ x3 \in Hw!NetDevs /\ x4 \in Hw!Records /\ x5 \in Hw!Registers /\ x6 \in Hw!Phys
      /\ x8' \in 0 .. HwOps
  BY HwOp DEF Hw!IInv, Hw!DataOK, Hw!SetSettings
<1>2. Hw!Present /\ UNCHANGED <<x1, x2, x3, x7>>
  BY DEF Hw!SetSettings
<1>3. ad \in Hw!Adverts
  BY HwPartAssumption DEF Hw!HwAssumption, Hw!Adverts
<1> DEFINE g == [x4 EXCEPT !.adv = ad]
<1>4. /\ g \in Hw!Records /\ g.adv = ad /\ g.wol = x4.wol /\ g.mac_addr = x4.mac_addr
      /\ g.perm = x4.perm /\ g.max_frame = x4.max_frame /\ g.rxbuf = x4.rxbuf
  BY <1>1, <1>3 DEF Hw!Records
<1>5. x6' = Hw!RestartAutoneg(x6, ad) \/ ("mdio" \in HwFailures /\ x6' = x6)
  BY DEF Hw!SetSettings
<1>6. /\ x6' \in Hw!Phys /\ x6'.power = x6.power /\ x6'.ier = x6.ier
      /\ "mdio" \notin HwFailures => x6'.adv = Hw!Advertised(ad)
  BY <1>1, <1>3, <1>5, HwAutoneg
<1>7. /\ x4' \in Hw!Records /\ Hw!SameRecord(x4', g) /\ x5' \in Hw!Registers
      /\ x5'.sta = x5.sta /\ x5'.otp = x5.otp
      /\ x2 = "up" => Hw!Programmed(x5', x3, x4)
      /\ x2 # "up" => x5' = x5
  <2> DEFINE h == [x4 EXCEPT !.adv = ad, !.carrier = FALSE, !.speed = 0]
             C == Hw!CheckLinkStatus(h, x5, x3, Hw!NoLink)
  <2>1. \/ x2 = "up" /\ x4' = C.hw /\ x5' = C.reg
        \/ x4' = g /\ x5' = x5
    <3>1. \/ IF x2 = "up" /\ Hw!Link # Hw!NoLink
             THEN LET after == Hw!CheckLinkStatus([x4 EXCEPT !.adv = ad, !.carrier = FALSE,
                                                          !.speed = 0], x5, x3, Hw!NoLink)
                  IN  x4' = after.hw /\ x5' = after.reg
             ELSE x4' = [x4 EXCEPT !.adv = ad] /\ UNCHANGED x5
          \/ x4' = g /\ UNCHANGED <<x6, x5>>
      BY Zenon DEF Hw!SetSettings
    <3> HIDE DEF C
    <3> QED
      BY <3>1 DEF C
  <2>2. h \in Hw!Records /\ Hw!SameRecord(h, g)
    <3>1. PICK no \in BOOLEAN, s \in Hw!Speeds : no = FALSE /\ s = 0
      BY ZenonT(40) DEF Hw!Speeds
    <3>2. PICK k : k = [g EXCEPT !.carrier = no, !.speed = s]
      OBVIOUS
    <3>3. h = k
      BY <1>1, <3>1, <3>2 DEF Hw!Records
    <3> HIDE DEF g, h
    <3>4. k \in Hw!Records /\ Hw!SameRecord(k, g)
      BY <1>4, <3>2 DEF Hw!Records, Hw!SameRecord
    <3> QED
      BY <3>3, <3>4
  <2> HIDE DEF g, h
  <2>3. CASE x2 = "up" /\ x4' = C.hw /\ x5' = C.reg
    <3>1. Hw!Programmed(x5, x3, x4)
      BY <2>3 DEF Hw!IInv, Hw!MacInv
    <3>2. Hw!Programmed(x5, x3, h)
      BY <1>4, <2>2, <3>1 DEF Hw!Programmed, Hw!SameRecord
    <3>3. /\ C.hw \in Hw!Records /\ Hw!SameRecord(C.hw, h) /\ C.reg \in Hw!Registers
          /\ Hw!Programmed(C.reg, x3, h) /\ C.reg.sta = x5.sta /\ C.reg.otp = x5.otp
      BY <1>1, <2>2, <3>2, HwCheckLink
    <3> HIDE DEF C
    <3> QED
      BY <1>4, <2>2, <2>3, <3>3 DEF Hw!Programmed, Hw!SameRecord
  <2>4. CASE x4' = g /\ x5' = x5
    <3>1. x2 = "up" => Hw!Programmed(x5, x3, x4)
      BY DEF Hw!IInv, Hw!MacInv
    <3> QED
      BY <1>1, <1>4, <2>4, <3>1 DEF Hw!SameRecord
  <2> QED
    BY <2>1, <2>3, <2>4
<1> HIDE DEF g
<1>8. x2 = "up" => x5'.wol = {}
  BY <1>7 DEF Hw!Programmed
<1>9. Hw!DataOK'
  BY <1>1, <1>2, <1>3, <1>4, <1>5, <1>6, <1>7, <1>8 DEF Hw!IInv, Hw!DataOK
<1>10. Hw!InactiveNoAspm'
  BY <1>1, <1>2, <1>3, <1>4, <1>5, <1>6, <1>7, <1>8 DEF Hw!IInv, Hw!InactiveNoAspm
<1>11. Hw!WakesAsAsked'
  BY <1>1, <1>2, <1>3, <1>4, <1>5, <1>6, <1>7, <1>8 DEF Hw!IInv, Hw!WakesAsAsked,
     Hw!AdvertisesAsAsked, Hw!Present, Hw!SameRecord
<1>12. Hw!AdvertisesAsAsked'
  BY <1>1, <1>2, <1>3, <1>4, <1>5, <1>6, <1>7, <1>8 DEF Hw!IInv, Hw!AdvertisesAsAsked,
     Hw!Present, Hw!Advertised, Hw!Giga, Hw!SameRecord
<1>13. Hw!MacInv'
  BY <1>1, <1>2, <1>3, <1>4, <1>5, <1>6, <1>7, <1>8 DEF Hw!IInv, Hw!MacInv, Hw!Programmed,
     Hw!SameRecord
<1>14. Hw!RunningInv'
  BY <1>1, <1>2, <1>3, <1>4, <1>5, <1>6, <1>7, <1>8 DEF Hw!IInv, Hw!RunningInv, Hw!DataOK,
     Hw!NetDevs
<1>15. Hw!AddrInv'
  BY <1>1, <1>2, <1>3, <1>4, <1>5, <1>6, <1>7, <1>8 DEF Hw!IInv, Hw!AddrInv, Hw!OtpClockOff,
     Hw!SameRecord, Hw!Present
<1> QED
  BY <1>9, <1>10, <1>11, <1>12, <1>13, <1>14, <1>15 DEF Hw!IInv

LEMMA HwSuspend ==
  ASSUME Hw!IInv, Hw!Suspend
  PROVE  Hw!IInv'
<1>1. /\ x3 \in Hw!NetDevs /\ x4 \in Hw!Records /\ x5 \in Hw!Registers /\ x6 \in Hw!Phys
      /\ x8' \in 0 .. HwOps
  BY HwOp DEF Hw!IInv, Hw!DataOK, Hw!Suspend
<1> DEFINE h == IF x2 = "up" THEN Hw!DownHw(x4) ELSE x4
           r == IF x2 = "up" THEN Hw!DownReg(x5) ELSE Hw!DisableAspm(x5)
           slow(b) == IF x4.wol = {} THEN [hw |-> h, phy |-> x6] ELSE Hw!PsLink(h, x6, b)
           done(b) == Hw!PowerSaving(r, slow(b).phy, x4.wol)
<1>2. Hw!Present /\ UNCHANGED <<x1, x3, x7>> /\ x2' \in {"suspended", "off"}
  BY DEF Hw!Suspend
<1>3. PICK b \in BOOLEAN : x4' = slow(b).hw /\ x5' = done(b).reg /\ x6' = done(b).phy
  BY Zenon DEF Hw!Suspend
<1>4. h \in Hw!Records /\ Hw!SameRecord(h, x4)
  BY <1>1, HwDownRecord DEF Hw!SameRecord
<1>5. r \in Hw!Registers /\ r.aspm = {} /\ r.sta = x5.sta /\ r.otp = x5.otp
  BY <1>1, HwDown
<1> HIDE DEF h, r
<1>6. /\ slow(b).hw \in Hw!Records /\ Hw!SameRecord(slow(b).hw, h)
      /\ slow(b).phy \in Hw!Phys /\ slow(b).phy.power = x6.power
  <2>1. CASE x4.wol = {}
    <3>1. slow(b) = [hw |-> h, phy |-> x6]
      BY <2>1
    <3>2. slow(b).hw = h /\ slow(b).phy = x6
      BY <3>1
    <3> HIDE DEF slow
    <3> QED
      BY <1>1, <1>4, <3>2 DEF Hw!SameRecord
  <2>2. CASE x4.wol # {}
    <3>1. slow(b) = Hw!PsLink(h, x6, b)
      BY <2>2
    <3> HIDE DEF slow
    <3> QED
      BY <1>1, <1>4, <3>1, HwPsLink
  <2> QED
    BY <2>1, <2>2
<1> HIDE DEF slow
<1>7. x6.power = "on" /\ x4.wol \in Hw!Wakeups
  BY <1>1, <1>2 DEF Hw!IInv, Hw!AdvertisesAsAsked, Hw!Records
<1>8. /\ x5' \in Hw!Registers /\ x6' \in Hw!Phys /\ x5'.aspm = {} /\ x5'.sta = x5.sta
      /\ x5'.otp = x5.otp /\ x5'.wol = x4.wol
      /\ (x6'.power = "on") <=> (x4.wol # {})
      /\ ("rx" \in x5'.mac) <=> ("magic" \in x4.wol)
      /\ "tx" \notin x5'.mac
  <2>1. PICK p \in Hw!Phys : p = slow(b).phy /\ p.power = "on"
    BY <1>6, <1>7
  <2>2. x5' = Hw!PowerSaving(r, p, x4.wol).reg /\ x6' = Hw!PowerSaving(r, p, x4.wol).phy
    BY <1>3, <2>1
  <2> QED
    BY <1>5, <1>7, <2>1, <2>2, HwPowerSaving
<1>9. x4' \in Hw!Records /\ Hw!SameRecord(x4', x4)
  BY <1>3, <1>4, <1>6 DEF Hw!SameRecord
<1>10. Hw!DataOK'
  BY <1>1, <1>2, <1>8, <1>9 DEF Hw!IInv, Hw!DataOK
<1>11. Hw!InactiveNoAspm'
  BY <1>8 DEF Hw!InactiveNoAspm
<1>12. Hw!WakesAsAsked'
  BY <1>2, <1>8, <1>9 DEF Hw!WakesAsAsked, Hw!Present, Hw!SameRecord
<1>13. Hw!AdvertisesAsAsked'
  BY <1>2 DEF Hw!AdvertisesAsAsked, Hw!Present
<1>14. Hw!MacInv'
  BY <1>2, <1>9 DEF Hw!IInv, Hw!MacInv, Hw!SameRecord, Hw!Present, Hw!RxBufSize, Hw!Overhead
<1>15. Hw!RunningInv'
  BY <1>2 DEF Hw!RunningInv
<1>16. Hw!AddrInv'
  BY <1>2, <1>8, <1>9 DEF Hw!IInv, Hw!AddrInv, Hw!OtpClockOff, Hw!SameRecord, Hw!Present
<1> QED
  BY <1>10, <1>11, <1>12, <1>13, <1>14, <1>15, <1>16 DEF Hw!IInv

LEMMA HwResume ==
  ASSUME Hw!IInv, Hw!Resume
  PROVE  Hw!IInv'
<1>1. /\ x3 \in Hw!NetDevs /\ x4 \in Hw!Records /\ x5 \in Hw!Registers /\ x6 \in Hw!Phys
      /\ x8' \in 0 .. HwOps
  BY HwOp DEF Hw!IInv, Hw!DataOK, Hw!Resume
<1> DEFINE r == Hw!ResetMac(Hw!ResetPcie(x5))
           U == Hw!Up(x4, r, x3, Hw!Negotiate(x6', x7))
<1>2. /\ x2 = "suspended" /\ UNCHANGED <<x1, x3, x7>>
      /\ x6' = Hw!PhyInit(Hw!PhyReset(x6), x4.adv)
  BY DEF Hw!Resume
<1>3. IF x3.running THEN x4' = U.hw /\ x5' = U.reg /\ x2' = "up"
      ELSE x5' = r /\ x2' = "down" /\ UNCHANGED x4
  BY Zenon DEF Hw!Resume
<1>4. r \in Hw!Registers /\ r.aspm = {} /\ r.wol = {} /\ r.sta = x5.sta /\ r.otp = x5.otp
  BY <1>1, HwResetPcie, HwResetMac
<1> HIDE DEF r
<1>5. /\ U.hw \in Hw!Records /\ Hw!SameRecord(U.hw, x4) /\ U.reg \in Hw!Registers
      /\ Hw!Programmed(U.reg, x3, x4) /\ U.reg.sta = r.sta /\ U.reg.otp = r.otp
  BY <1>1, <1>4, HwUp
<1> HIDE DEF U
<1>6. /\ x4' \in Hw!Records /\ Hw!SameRecord(x4', x4) /\ x5' \in Hw!Registers
      /\ x5'.sta = x5.sta /\ x5'.otp = x5.otp /\ x5'.wol = {} /\ x2' \in {"up", "down"}
      /\ x2' = "up" => x3.running /\ Hw!Programmed(x5', x3, x4)
      /\ x2' = "down" => x5'.aspm = {}
  <2>1. CASE x3.running
    BY <1>3, <1>4, <1>5, <2>1 DEF Hw!Programmed
  <2>2. CASE ~x3.running
    BY <1>1, <1>3, <1>4, <2>2 DEF Hw!SameRecord
  <2> QED
    BY <2>1, <2>2
<1>7. /\ x6' \in Hw!Phys /\ x6'.adv = Hw!Advertised(x4.adv) /\ x6'.power = "on"
      /\ x6'.ier = {"up", "down"}
  <2>1. x4.adv \in Hw!Adverts
    BY <1>1 DEF Hw!Records
  <2> QED
    BY <1>1, <1>2, <2>1, HwPhyInit
<1>8. Hw!DataOK'
  BY <1>1, <1>2, <1>6, <1>7 DEF Hw!IInv, Hw!DataOK
<1>9. Hw!InactiveNoAspm'
  BY <1>6 DEF Hw!InactiveNoAspm
<1>10. Hw!WakesAsAsked'
  BY <1>6 DEF Hw!WakesAsAsked
<1>11. Hw!AdvertisesAsAsked'
  BY <1>2, <1>6, <1>7 DEF Hw!AdvertisesAsAsked, Hw!Advertised, Hw!Giga, Hw!SameRecord
<1>12. Hw!MacInv'
  BY <1>2, <1>6 DEF Hw!IInv, Hw!MacInv, Hw!SameRecord, Hw!Programmed, Hw!RxBufSize, Hw!Overhead
<1>13. Hw!RunningInv'
  BY <1>2, <1>6 DEF Hw!RunningInv
<1>14. Hw!AddrInv'
  BY <1>2, <1>6 DEF Hw!IInv, Hw!AddrInv, Hw!OtpClockOff, Hw!SameRecord
<1> QED
  BY <1>8, <1>9, <1>10, <1>11, <1>12, <1>13, <1>14 DEF Hw!IInv

LEMMA HwInit ==
  ASSUME Hw!Init
  PROVE  Hw!IInv
<1>1. PICK no \in BOOLEAN : no = FALSE
  OBVIOUS
<1>2. Hw!NoAddr \in Hw!Addresses /\ Hw!NoAddr.origin = "none"
  BY DEF Hw!NoAddr, Hw!Addresses
<1>3. x3 \in Hw!NetDevs /\ x4 \in Hw!Records /\ x4.perm = Hw!NoAddr
  BY <1>2, HwNew DEF Hw!Init
<1>4. PICK sta \in Hw!Addresses :
         /\ x5 = [aspm |-> Hw!AllAspm, mac |-> {}, wol |-> {}, mtu |-> 0, rxbuf |-> 0,
                  vlan |-> no, filter |-> Hw!NoFilter, sta |-> sta, otp |-> no]
         /\ sta.origin # "user"
  <2>1. \A sta \in {Hw!NoAddr, Hw!Addr("bios")} : sta \in Hw!Addresses /\ sta.origin # "user"
    BY DEF Hw!NoAddr, Hw!Addr, Hw!Addresses
  <2> QED
    BY <1>1, <2>1, Zenon DEF Hw!Init
<1>5. x5 \in Hw!Registers /\ x5.sta = sta /\ ~x5.otp
  <2>1. PICK f \in Hw!Filters : f = Hw!NoFilter
    BY DEF Hw!NoFilter, Hw!Filters
  <2>2. {} \in Hw!Wakeups
    BY DEF Hw!Wakeups
  <2> QED
    BY <1>1, <1>4, <2>1, <2>2 DEF Hw!Registers
<1>6. x6 \in Hw!Phys
  <2>1. x6 = [power |-> "iddq", adv |-> {}, done |-> no, ier |-> {}]
    BY <1>1, Zenon DEF Hw!Init
  <2> QED
    BY <2>1 DEF Hw!Phys
<1>7. Hw!DataOK
  BY <1>3, <1>5, <1>6, HwPartAssumption DEF Hw!Init, Hw!DataOK, Hw!HwAssumption
<1>8. x2 = "unbound"
  BY DEF Hw!Init
<1> QED
  BY <1>2, <1>3, <1>4, <1>5, <1>7, <1>8 DEF Hw!IInv, Hw!InactiveNoAspm, Hw!WakesAsAsked,
     Hw!Present, Hw!AdvertisesAsAsked, Hw!MacInv, Hw!RunningInv, Hw!AddrInv, Hw!OtpClockOff

LEMMA HwNext ==
  ASSUME Hw!IInv, Hw!Next
  PROVE  Hw!IInv'
<1>1. CASE Hw!Probe \/ Hw!Remove \/ Hw!Open \/ Hw!OpenFails \/ Hw!Close
  BY <1>1, HwProbe, HwRemove, HwOpen, HwOpenFails, HwClose
<1>2. CASE Hw!Plug \/ Hw!NegotiationDone
  BY <1>2, HwPlug, HwNegotiationDone
<1>3. CASE \E ad \in HwSettings : Hw!SetSettings(ad)
  BY <1>3, HwSetSettings
<1>4. CASE \E w \in Hw!Wakeups : Hw!SetWol(w)
  BY <1>4, HwSetWol
<1>5. CASE Hw!SetMacAddr \/ Hw!SetFeatures \/ Hw!GetEeprom
  BY <1>5, HwSetMacAddr, HwSetFeatures, HwGetEeprom
<1>6. CASE \E mtu \in HwMtus : Hw!ChangeMtu(mtu)
  BY <1>6, HwChangeMtu, HwPartAssumption DEF Hw!HwAssumption
<1>7. CASE \E fl \in Hw!RxFlags : Hw!SetRxMode(fl)
  <2>1. Hw!RxFlags \subseteq Hw!FlagSets
    <3>1. [promisc : BOOLEAN, allmulti : {FALSE}, mc : {{}, {"m"}}] \subseteq Hw!FlagSets
      BY DEF Hw!FlagSets
    <3>2. PICK no \in BOOLEAN, yes \in BOOLEAN : no = FALSE /\ yes = TRUE
      OBVIOUS
    <3>3. [promisc |-> no, allmulti |-> yes, mc |-> {}] \in Hw!FlagSets
      BY DEF Hw!FlagSets
    <3>4. [promisc |-> FALSE, allmulti |-> TRUE, mc |-> {}] \in Hw!FlagSets
      BY <3>2, <3>3, Zenon
    <3> QED
      BY <3>1, <3>4, Zenon DEF Hw!RxFlags
  <2> QED
    BY <1>7, <2>1, HwSetRxMode
<1>8. CASE Hw!Suspend \/ Hw!Resume
  BY <1>8, HwSuspend, HwResume
<1> QED
  BY <1>1, <1>2, <1>3, <1>4, <1>5, <1>6, <1>7, <1>8 DEF Hw!Next, Hw!Wakeups

LEMMA HwServed ==
  ASSUME Hw!IInv
  PROVE  /\ Hw!TypeOK /\ Hw!InactiveNoAspm /\ Hw!WakesAsAsked /\ Hw!AdvertisesAsAsked
         /\ Hw!ProgrammedAsAsked /\ Hw!PermanentIsNotUsers /\ Hw!OtpClockOff
<1>1. Hw!TypeOK
  <2>1. x3.running \in BOOLEAN /\ x3.mtu \in Nat /\ x3.vlan \in BOOLEAN
    BY DEF Hw!IInv, Hw!DataOK, Hw!NetDevs
  <2>2. /\ x4.adv \in {"auto"} \cup Hw!Modes /\ x4.wol \subseteq {"magic", "link"}
        /\ x4.speed \in {0, 10, 100, 1000} /\ x4.duplex \in {"none", "half", "full"}
        /\ x4.mac_addr \in Hw!Addresses /\ x4.perm \in Hw!Addresses
    BY DEF Hw!IInv, Hw!DataOK, Hw!Records, Hw!Adverts, Hw!Wakeups, Hw!Speeds, Hw!Duplexes
  <2>3. /\ x5.aspm \subseteq Hw!AllAspm /\ x5.mac \subseteq {"tx", "rx"}
        /\ x5.wol \subseteq {"magic", "link"} /\ x5.sta \in Hw!Addresses /\ x5.otp \in BOOLEAN
    BY DEF Hw!IInv, Hw!DataOK, Hw!Registers, Hw!Wakeups
  <2>4. /\ x6.power \in {"on", "iddq"} /\ x6.adv \subseteq Hw!Modes /\ x6.done \in BOOLEAN
        /\ x6.ier \subseteq {"up", "down"}
    BY DEF Hw!IInv, Hw!DataOK, Hw!Phys
  <2> QED
    BY <2>1, <2>2, <2>3, <2>4 DEF Hw!IInv, Hw!DataOK, Hw!TypeOK
<1>2. Hw!ProgrammedAsAsked
  <2>1. x3.mtu \in Nat
    BY DEF Hw!IInv, Hw!DataOK, Hw!NetDevs
  <2> QED
    BY <2>1, HwRxBufSize DEF Hw!IInv, Hw!MacInv, Hw!Programmed, Hw!ProgrammedAsAsked
<1>3. Hw!PermanentIsNotUsers
  BY DEF Hw!IInv, Hw!AddrInv, Hw!PermanentIsNotUsers, Hw!Present
<1> QED
  BY <1>1, <1>2, <1>3 DEF Hw!IInv, Hw!AddrInv

\* The registers, the PHY and the station address of an atl1c follow the network
\* device, the wake-up settings and the user, over any sequence of probe, open,
\* settings, suspend, resume, close and remove, for every adapter and MTU
\* (atl1c_configure, atl1c_power_saving, atl1c_phy_init, atl1c_read_mac_addr).
THEOREM HardwareAsAskedAlways == Spec => []HardwareAsAsked
<1> DEFINE Inv == which = "hw" => Hw!IInv
<1>1. ASSUME Init PROVE Inv
  BY <1>1, HwInit DEF Init
<1>2. ASSUME Inv, [Next]_vars PROVE Inv'
  <2>1. CASE which = "hw" /\ Next
    <3>1. which' = "hw" /\ Hw!Next
      BY <2>1 DEF Next
    <3> QED
      BY <1>2, <2>1, <3>1, HwNext
  <2>2. CASE which # "hw" /\ Next
    BY <2>2 DEF Next
  <2>3. CASE UNCHANGED vars
    <3>1. UNCHANGED <<which, x1, x2, x3, x4, x5, x6, x7, x8>>
      BY <2>3 DEF vars
    <3>2. Hw!IInv => Hw!DataOK' /\ Hw!InactiveNoAspm' /\ Hw!WakesAsAsked' /\ Hw!AdvertisesAsAsked'
      BY <3>1 DEF Hw!IInv, Hw!DataOK, Hw!InactiveNoAspm, Hw!WakesAsAsked, Hw!AdvertisesAsAsked,
         Hw!Present, Hw!Advertised, Hw!Giga
    <3>3. Hw!IInv => Hw!MacInv' /\ Hw!RunningInv' /\ Hw!AddrInv'
      BY <3>1 DEF Hw!IInv, Hw!MacInv, Hw!Programmed, Hw!RunningInv, Hw!AddrInv, Hw!OtpClockOff
    <3> QED
      BY <1>2, <3>1, <3>2, <3>3 DEF Hw!IInv
  <2> QED
    BY <1>2, <2>1, <2>2, <2>3
<1>3. ASSUME Inv PROVE HardwareAsAsked
  BY <1>3, HwServed DEF HardwareAsAsked
<1> QED
  BY <1>1, <1>2, <1>3, PTL DEF Spec

(***************************************************************************)
(* The character devices (CharDevs). First facts about sequences, then     *)
(* what a read, a write and a load do to the buffer, then the actions.     *)
(***************************************************************************)

LEMMA SeqOne ==
  ASSUME NEW S, NEW e \in S
  PROVE  <<e>> \in Seq(S)
OBVIOUS

LEMMA SeqTail ==
  ASSUME NEW S, NEW s \in Seq(S), NEW k \in 0 .. Len(s)
  PROVE  LET r == SubSeq(s, k + 1, Len(s))
         IN  /\ r \in Seq(S) /\ Len(r) = Len(s) - k
             /\ \A i \in 1 .. Len(s) - k : r[i] = s[k + i] /\ s[k + i] \in S
<1>1. Len(s) \in Nat /\ k \in Nat
  BY LenProperties
<1>2. \A i \in 1 .. Len(s) : s[i] \in S
  BY ElementOfSeq
<1> DEFINE m == k + 1
           r == SubSeq(s, m, Len(s))
<1>3. m \in Int /\ \A i \in m .. Len(s) : s[i] \in S
  BY <1>1, <1>2
<1>4. /\ r \in Seq(S) /\ Len(r) = (IF m <= Len(s) THEN Len(s) - m + 1 ELSE 0)
      /\ \A i \in 1 .. Len(s) - m + 1 : r[i] = s[m + i - 1]
  BY <1>1, <1>3, SubSeqProperties
<1> HIDE DEF r
<1>5. Len(r) = Len(s) - k
  BY <1>1, <1>4
<1>6. ASSUME NEW i \in 1 .. Len(s) - k
      PROVE  r[i] = s[k + i] /\ s[k + i] \in S
  <2>1. i \in 1 .. Len(s) - m + 1 /\ m + i - 1 = k + i /\ k + i \in 1 .. Len(s)
    BY <1>1
  <2> HIDE DEF m
  <2>2. r[i] = s[m + i - 1]
    BY <1>4, <2>1
  <2> QED
    BY <1>2, <2>1, <2>2
<1>7. r \in Seq(S)
  BY <1>4
<1> QED
  BY <1>5, <1>6, <1>7 DEF r

LEMMA SeqRest ==
  ASSUME NEW S, NEW s \in Seq(S), NEW k \in 0 .. Len(s), k < Len(s)
  PROVE  LET r == SubSeq(s, k + 1, Len(s))
         IN  /\ SubSeq(r, 2, Len(r)) = SubSeq(s, k + 2, Len(s))
             /\ Head(r) = s[k + 1] /\ r[Len(r)] = s[Len(s)] /\ s[k + 1] \in S /\ s[Len(s)] \in S
<1>1. Len(s) \in Nat /\ k \in Nat
  BY LenProperties
<1>2. PICK n \in Nat : n = Len(s) - k
  BY <1>1
<1>0. PICK r : r = SubSeq(s, k + 1, Len(s))
  OBVIOUS
<1>3. r \in Seq(S) /\ Len(r) = n /\ \A i \in 1 .. n : r[i] = s[k + i] /\ s[k + i] \in S
  BY <1>0, <1>2, SeqTail
<1>4. PICK q : q = SubSeq(r, 2, n)
  OBVIOUS
<1>5. q \in Seq(S) /\ Len(q) = n - 1 /\ \A i \in 1 .. n - 1 : q[i] = r[i + 1]
  <2>1. (\A i \in 2 .. n : r[i] \in S) /\ 2 \in Int /\ n \in Int
    BY <1>3
  <2>2. /\ SubSeq(r, 2, n) \in Seq(S) /\ Len(SubSeq(r, 2, n)) = IF 2 <= n THEN n - 2 + 1 ELSE 0
        /\ \A i \in 1 .. n - 2 + 1 : SubSeq(r, 2, n)[i] = r[2 + i - 1]
    BY <2>1, SubSeqProperties
  <2>3. /\ q \in Seq(S) /\ Len(q) = (IF 2 <= n THEN n - 2 + 1 ELSE 0)
        /\ \A i \in 1 .. n - 2 + 1 : q[i] = r[2 + i - 1]
    BY <1>4, <2>2
  <2> QED
    BY <1>1, <1>2, <2>3
<1>6. PICK p : p = SubSeq(s, k + 2, Len(s))
  OBVIOUS
<1>7. p \in Seq(S) /\ Len(p) = n - 1 /\ \A i \in 1 .. n - 1 : p[i] = s[k + 1 + i]
  <2>1. PICK l \in 0 .. Len(s) : l = k + 1 /\ l + 1 = k + 2
    BY <1>1
  <2>2. /\ SubSeq(s, l + 1, Len(s)) \in Seq(S) /\ Len(SubSeq(s, l + 1, Len(s))) = Len(s) - l
        /\ \A i \in 1 .. Len(s) - l : SubSeq(s, l + 1, Len(s))[i] = s[l + i]
    BY SeqTail
  <2>3. p \in Seq(S) /\ Len(p) = Len(s) - l /\ \A i \in 1 .. Len(s) - l : p[i] = s[l + i]
    BY <1>6, <2>1, <2>2
  <2> QED
    BY <1>1, <1>2, <2>1, <2>3
<1>8. \A i \in 1 .. Len(q) : q[i] = p[i]
  <2> SUFFICES ASSUME NEW i \in 1 .. n - 1
               PROVE  q[i] = p[i]
    BY <1>5
  <2>1. q[i] = r[i + 1] /\ p[i] = s[k + 1 + i] /\ i + 1 \in 1 .. n
    BY <1>5, <1>7
  <2>2. r[i + 1] = s[k + (i + 1)] /\ k + (i + 1) = k + 1 + i
    BY <1>3, <2>1
  <2> QED
    BY <2>1, <2>2
<1>9. q = p
  BY <1>5, <1>7, <1>8, SeqEqual
<1>10. /\ Head(r) = r[1] /\ r[1] = s[k + 1] /\ s[k + 1] \in S /\ r[n] = s[Len(s)]
       /\ s[Len(s)] \in S
  <2>1. n \in Nat \ {0} /\ 1 \in 1 .. n /\ n \in 1 .. n /\ k + n = Len(s)
    BY <1>1, <1>2
  <2>2. r # <<>>
    BY <1>3, <2>1, EmptySeq
  <2> QED
    BY <1>3, <2>1, <2>2
<1> QED
  BY <1>0, <1>3, <1>4, <1>6, <1>9, <1>10

LEMMA SeqWritten ==
  ASSUME NEW S, NEW b \in Seq(S), NEW s \in Seq(S), NEW n \in 0 .. Len(s)
  PROVE  LET w == b \o SubSeq(s, 1, n)
         IN  /\ w \in Seq(S) /\ Len(w) = Len(b) + n
             /\ \A i \in 1 .. Len(b) + n : w[i] = IF i <= Len(b) THEN b[i] ELSE s[i - Len(b)]
<1>1. Len(s) \in Nat /\ Len(b) \in Nat /\ n \in Nat
  BY LenProperties
<1>2. \A i \in 1 .. n : s[i] \in S
  BY <1>1, ElementOfSeq
<1> DEFINE p == SubSeq(s, 1, n)
<1>3. p \in Seq(S) /\ Len(p) = n /\ \A i \in 1 .. n : p[i] = s[i]
  BY <1>1, <1>2, SubSeqProperties
<1> HIDE DEF p
<1>4. /\ b \o p \in Seq(S) /\ Len(b \o p) = Len(b) + n
      /\ \A i \in 1 .. Len(b) + n : (b \o p)[i] = IF i <= Len(b) THEN b[i] ELSE p[i - Len(b)]
  BY <1>3, ConcatProperties
<1>5. \A i \in 1 .. Len(b) + n : (b \o p)[i] = IF i <= Len(b) THEN b[i] ELSE s[i - Len(b)]
  BY <1>1, <1>3, <1>4
<1> QED
  BY <1>4, <1>5 DEF p

LEMMA SeqWhole ==
  ASSUME NEW S, NEW s \in Seq(S)
  PROVE  /\ SubSeq(s, 1, Len(s)) = s /\ SubSeq(s, 1, 0) = <<>>
         /\ SubSeq(s, Len(s) + 1, Len(s)) = <<>>
BY LenProperties, SubSeqFull, SubSeqEmpty

LEMMA ChrText ==
  /\ ChrSize \in Nat \ {0}
  /\ \A s \in ChrTexts : s \in Seq(Chr!Bytes) /\ s # <<>> /\ Len(s) \in Nat \ {0}
  /\ <<>> \in Seq(Chr!Bytes) /\ Chr!NUL \in Chr!Bytes
<1>1. ChrSize \in Nat \ {0} /\ \A s \in ChrTexts : s \in Seq(Chr!Bytes) /\ s # <<>>
  BY ChrPartAssumption DEF Chr!ChrAssumption
<1>2. Chr!NUL \in Chr!Bytes
  BY DEF Chr!Bytes
<1> HIDE DEF Chr!Bytes
<1> QED
  BY <1>1, <1>2, EmptySeq

LEMMA ChrFile ==
  ASSUME x7 \in [ChrTasks -> Chr!Files], NEW t \in ChrTasks, NEW r \in Chr!Files,
         x7' = [x7 EXCEPT ![t] = r]
  PROVE  /\ x7' \in [ChrTasks -> Chr!Files] /\ x7'[t] = r
         /\ \A u \in ChrTasks : u # t => x7'[u] = x7[u]
OBVIOUS

LEMMA ChrStep ==
  ASSUME Chr!IInv, NEW t \in ChrTasks, NEW r \in Chr!Files, x7' = [x7 EXCEPT ![t] = r],
         x7[t].cmd \notin {"none", "gone"}, UNCHANGED <<x1, x2, x9>>, Chr!FileOK(r),
         r.cmd = "cat" => /\ r.pos = 0 => r.got = <<>>
                          /\ r.pos # 0 => x1 # "parlelport" /\ (~x9 => r.got = x4')
  PROVE  /\ Chr!FilesInv' /\ Chr!AloneInv' /\ Chr!ReadersInv' /\ x7' \in [ChrTasks -> Chr!Files]
         /\ x7'[t] = r /\ x2 /\ \A u \in ChrTasks : u # t => x7'[u] = x7[u]
         /\ ~x9 => \A u \in ChrTasks : u # t => x7[u].cmd \in {"none", "gone"} /\ x7'[u] = x7[u]
<1>1. x7 \in [ChrTasks -> Chr!Files]
  BY DEF Chr!IInv, Chr!TypeOK
<1>2. /\ x7' \in [ChrTasks -> Chr!Files] /\ x7'[t] = r
      /\ \A u \in ChrTasks : u # t => x7'[u] = x7[u]
  BY <1>1, ChrFile
<1>3. x2
  BY DEF Chr!IInv, Chr!FilesInv, Chr!FileOK
<1>4. ~x9 => \A u \in ChrTasks : u # t => x7[u].cmd \in {"none", "gone"}
  BY DEF Chr!IInv, Chr!AloneInv, Chr!Busy
<1>5. Chr!FilesInv'
  BY <1>2 DEF Chr!IInv, Chr!FilesInv, Chr!FileOK
<1>6. Chr!AloneInv'
  BY <1>2, <1>4 DEF Chr!AloneInv, Chr!Busy
<1>7. Chr!ReadersInv'
  BY <1>2, <1>4 DEF Chr!IInv, Chr!ReadersInv, Chr!ReaderOK
<1> QED
  BY <1>2, <1>3, <1>4, <1>5, <1>6, <1>7

LEMMA ChrSame ==
  ASSUME Chr!IInv, ~x11, UNCHANGED <<x1, x2, x3, x11>>
  PROVE  Chr!LoadAllOrNothing' /\ Chr!NullInv' /\ Chr!CrashInv' /\ x11' \in BOOLEAN
<1>1. x11' \in BOOLEAN /\ ~x11'
  BY Zenon DEF Chr!IInv, Chr!TypeOK
<1>2. Chr!LoadAllOrNothing'
  BY DEF Chr!IInv, Chr!LoadAllOrNothing, Chr!Wants, Chr!Unchecked
<1>3. Chr!NullInv'
  BY DEF Chr!IInv, Chr!NullInv
<1>4. Chr!CrashInv'
  BY <1>1 DEF Chr!CrashInv
<1> QED
  BY <1>1, <1>2, <1>3, <1>4

LEMMA ChrWrites ==
  ASSUME Chr!IInv, NEW t \in ChrTasks, Chr!Writes(t)
  PROVE  /\ x7[t] \in Chr!Files /\ x7[t].cmd = "echo" /\ x7[t].text \in ChrTexts
         /\ x7[t].text \in Seq(Chr!Bytes) /\ x2
         /\ \E k \in 0 .. Len(x7[t].text) :
              /\ k + 1 \in 0 .. Len(x7[t].text)
              /\ x7[t].rest = SubSeq(x7[t].text, k + 1, Len(x7[t].text))
              /\ Len(x7[t].text) - Len(x7[t].rest) = k
              /\ \E q \in Seq(Chr!Bytes) :
                   /\ q = SubSeq(x7[t].text, k + 2, Len(x7[t].text))
                   /\ SubSeq(x7[t].rest, 1 + 1, Len(x7[t].rest)) = q
                   /\ Len(x7[t].text) - Len(q) = k + 1
              /\ Head(x7[t].rest) = x7[t].text[k + 1] /\ x7[t].text[k + 1] \in Chr!Bytes
              /\ x7[t].rest[Len(x7[t].rest)] = x7[t].text[Len(x7[t].text)]
              /\ x7[t].text[Len(x7[t].text)] \in Chr!Bytes
<1>1. x7[t] \in Chr!Files /\ x7[t].cmd = "echo" /\ x7[t].rest # <<>>
  BY DEF Chr!Writes, Chr!IInv, Chr!TypeOK
<1>2. PICK s : s = x7[t].text
  OBVIOUS
<1>3. PICK r : r = x7[t].rest
  OBVIOUS
<1>4. s \in ChrTexts /\ x2 /\ \E k \in 0 .. Len(s) : r = SubSeq(s, k + 1, Len(s))
  BY <1>1, <1>2, <1>3 DEF Chr!IInv, Chr!FilesInv, Chr!FileOK
<1>5. s \in Seq(Chr!Bytes) /\ Len(s) \in Nat
  BY <1>4, ChrText
<1>6. PICK k \in 0 .. Len(s) : r = SubSeq(s, k + 1, Len(s))
  BY <1>4
<1>7. k # Len(s)
  BY <1>1, <1>3, <1>5, <1>6, SeqWhole
<1>8. /\ Len(r) = Len(s) - k /\ SubSeq(r, 2, Len(r)) = SubSeq(s, k + 2, Len(s))
      /\ Head(r) = s[k + 1] /\ r[Len(r)] = s[Len(s)] /\ s[k + 1] \in Chr!Bytes
      /\ s[Len(s)] \in Chr!Bytes
  <2>1. k < Len(s)
    BY <1>5, <1>7
  <2> QED
    BY <1>5, <1>6, <2>1, SeqTail, SeqRest
<1>9. PICK l \in 0 .. Len(s) : l = k + 1 /\ l + 1 = k + 2
  BY <1>5, <1>7
<1>10. PICK q : q = SubSeq(s, l + 1, Len(s))
  OBVIOUS
<1>11. q \in Seq(Chr!Bytes) /\ Len(q) = Len(s) - l
  BY <1>5, <1>10, SeqTail
<1>12. Len(s) - Len(r) = k /\ Len(s) - Len(q) = k + 1 /\ 1 + 1 = 2 /\ k + 1 \in 0 .. Len(s)
  BY <1>5, <1>8, <1>9, <1>11
<1>13. q = SubSeq(s, k + 2, Len(s)) /\ SubSeq(r, 1 + 1, Len(r)) = q
  BY <1>8, <1>9, <1>10, <1>12
<1>14. \E qq \in Seq(Chr!Bytes) : /\ qq = SubSeq(s, k + 2, Len(s))
                                   /\ SubSeq(r, 1 + 1, Len(r)) = qq /\ Len(s) - Len(qq) = k + 1
  BY <1>11, <1>12, <1>13, ZenonT(40)
<1> QED
  BY <1>1, <1>2, <1>3, <1>4, <1>5, <1>6, <1>8, <1>12, <1>14

LEMMA ChrMemoryWrite ==
  ASSUME Chr!IInv, ~x11, NEW t \in ChrTasks, Chr!MemoryWrite(t)
  PROVE  Chr!IInv'
<1>1. /\ Chr!Writes(t) /\ Chr!IsMemory /\ x5 \in Nat /\ x4 \in Seq(Chr!Bytes)
      /\ x5' = x5 + 1 /\ x7' = Chr!Unwritten(t, 1)
      /\ UNCHANGED <<x1, x2, x3, x6, x8, x9>>
  BY DEF Chr!MemoryWrite, Chr!IInv, Chr!TypeOK
<1>2. PICK f \in Chr!Files : f = x7[t]
  BY <1>1, ChrWrites
<1>3. PICK s \in Seq(Chr!Bytes) : s = x7[t].text
  BY <1>1, ChrWrites
<1>4. PICK k \in 0 .. Len(s), q \in Seq(Chr!Bytes) :
        /\ k + 1 \in 0 .. Len(s) /\ Len(s) - Len(x7[t].rest) = k /\ q = SubSeq(s, k + 2, Len(s))
        /\ SubSeq(x7[t].rest, 1 + 1, Len(x7[t].rest)) = q /\ Len(s) - Len(q) = k + 1
        /\ Head(x7[t].rest) = s[k + 1] /\ s[k + 1] \in Chr!Bytes
  BY <1>1, <1>3, ChrWrites
<1>5. x7[t].cmd = "echo" /\ s \in ChrTexts /\ x2
  BY <1>1, <1>3, ChrWrites
<1>20. \/ x5 < ChrSize /\ x4' = [x4 EXCEPT ![x5 + 1] = Head(x7[t].rest)]
       \/ x5 >= ChrSize /\ x4' = x4
  BY DEF Chr!MemoryWrite
<1>21. x11' \in BOOLEAN /\ (x5 >= ChrSize \/ ~x11')
  <2>1. CASE UNCHANGED x11
    BY <2>1, Zenon DEF Chr!IInv, Chr!TypeOK
  <2>2. CASE x5 >= ChrSize /\ x11' \in BOOLEAN
    BY <2>2, Zenon
  <2> QED
    BY <2>1, <2>2, Zenon DEF Chr!MemoryWrite
<1> DEFINE r == [f EXCEPT !.rest = q]
<1>6. r \in Chr!Files /\ r.cmd = "echo" /\ r.text = s /\ r.rest = q
  BY <1>2, <1>3, <1>5 DEF Chr!Files
<1>7. x7' = [x7 EXCEPT ![t] = r]
  BY <1>1, <1>2, <1>4 DEF Chr!Unwritten
<1> HIDE DEF r
<1>8. Chr!FileOK(r)
  <2>1. PICK l \in 0 .. Len(s) : l = k + 1 /\ l + 1 = k + 2
    BY <1>4, LenProperties
  <2> QED
    BY <1>1, <1>4, <1>5, <1>6, <2>1 DEF Chr!FileOK, Chr!IsMemory
<1>9. /\ Chr!FilesInv' /\ Chr!AloneInv' /\ Chr!ReadersInv' /\ x7' \in [ChrTasks -> Chr!Files]
      /\ x7'[t] = r
      /\ ~x9 => \A u \in ChrTasks : u # t => x7[u].cmd \in {"none", "gone"} /\ x7'[u] = x7[u]
  BY <1>1, <1>5, <1>6, <1>7, <1>8, ChrStep
<1>10. Len(x4) = ChrSize /\ ChrSize \in Nat \ {0}
  BY <1>1, <1>5, ChrText DEF Chr!IInv, Chr!MemoryInv
<1>11. x4' \in Seq(Chr!Bytes) /\ Len(x4') = ChrSize
  <2>5. CASE x4' = x4
    BY <1>1, <1>10, <2>5
  <2>6. SUFFICES ASSUME x5 < ChrSize, x4' = [x4 EXCEPT ![x5 + 1] = Head(x7[t].rest)]
                 PROVE  x4' \in Seq(Chr!Bytes) /\ Len(x4') = ChrSize
    BY <1>20, <2>5
  <2>1. PICK i \in 1 .. Len(x4) : i = x5 + 1
    BY <1>1, <1>10, <2>6
  <2>2. PICK e \in Chr!Bytes : e = Head(x7[t].rest)
    BY <1>4
  <2>3. [x4 EXCEPT ![i] = e] \in Seq(Chr!Bytes) /\ Len([x4 EXCEPT ![i] = e]) = Len(x4)
    BY <1>1, ExceptSeq
  <2> QED
    BY <1>1, <1>10, <2>1, <2>2, <2>3, <2>6
<1>12. Chr!TypeOK'
  BY <1>1, <1>9, <1>11, <1>21 DEF Chr!IInv, Chr!TypeOK, Chr!IsMemory
<1>13. Chr!LoadAllOrNothing' /\ Chr!NullInv' /\ Chr!CrashInv'
  <2>1. Chr!LoadAllOrNothing' /\ Chr!NullInv'
    BY <1>1 DEF Chr!IInv, Chr!LoadAllOrNothing, Chr!Wants, Chr!Unchecked, Chr!NullInv
  <2>2. x5' > ChrSize \/ ~x11'
    BY <1>1, <1>10, <1>21
  <2>3. Chr!CrashInv'
    BY <1>1, <1>5, <2>2 DEF Chr!CrashInv, Chr!IsMemory
  <2> QED
    BY <2>1, <2>3
<1>14. ~x9 => x4' = Chr!Filled(x8.bytes \o Chr!Written(r)) /\ x5' = Len(x8.bytes \o Chr!Written(r))
  <2> SUFFICES ASSUME ~x9
               PROVE  /\ x4' = Chr!Filled(x8.bytes \o Chr!Written(r))
                      /\ x5' = Len(x8.bytes \o Chr!Written(r))
    OBVIOUS
  <2>1. PICK b \in Seq(Chr!Bytes) : b = x8.bytes
    BY DEF Chr!IInv, Chr!TypeOK, Chr!Logs
  <2>2. PICK v : v = b \o SubSeq(s, 1, k)
    OBVIOUS
  <2>3. PICK l \in 0 .. Len(s) : l = k + 1
    BY <1>4
  <2>4. PICK w : w = b \o SubSeq(s, 1, l)
    OBVIOUS
  <2>5. x4 = Chr!Filled(v) /\ x5 = Len(v)
    <3>1. Chr!Written(x7[t]) = SubSeq(s, 1, k)
      BY <1>3, <1>4 DEF Chr!Written
    <3>2. Chr!Holds(x8.bytes \o Chr!Written(x7[t]))
      BY <1>1, <1>5 DEF Chr!IInv, Chr!MemoryInv
    <3> QED
      BY <2>1, <2>2, <3>1, <3>2 DEF Chr!Holds
  <2>6. Chr!Written(r) = SubSeq(s, 1, l)
    BY <1>4, <1>6, <2>3 DEF Chr!Written
  <2>7. /\ Len(v) = Len(b) + k
        /\ \A i \in 1 .. Len(b) + k : v[i] = IF i <= Len(b) THEN b[i] ELSE s[i - Len(b)]
    BY <2>2, SeqWritten
  <2>8. /\ Len(w) = Len(b) + l
        /\ \A i \in 1 .. Len(b) + l : w[i] = IF i <= Len(b) THEN b[i] ELSE s[i - Len(b)]
    BY <2>4, SeqWritten
  <2>9. Len(b) \in Nat
    BY LenProperties
  <2>10. Len(w) = x5 + 1 /\ (\A i \in 1 .. x5 : w[i] = v[i]) /\ w[x5 + 1] = s[k + 1]
    <3>1. PICK m \in Nat : m = Len(b)
      BY <2>9
    <3>2. k \in Nat /\ l = k + 1 /\ x5 = m + k
      BY <2>3, <2>5, <2>7, <3>1
    <3>3. Len(w) = x5 + 1
      BY <2>8, <3>1, <3>2
    <3>4. w[x5 + 1] = s[k + 1]
      <4>1. PICK i \in 1 .. m + l : i = x5 + 1 /\ ~(i <= m) /\ i - m = k + 1
        BY <3>2
      <4>2. w[i] = IF i <= m THEN b[i] ELSE s[i - m]
        BY <2>8, <3>1
      <4> QED
        BY <4>1, <4>2
    <3>5. ASSUME NEW i \in 1 .. x5
          PROVE  w[i] = v[i]
      <4>1. i \in 1 .. m + l /\ i \in 1 .. m + k
        BY <3>2
      <4>2. w[i] = IF i <= m THEN b[i] ELSE s[i - m]
        BY <2>8, <3>1, <4>1
      <4>3. v[i] = IF i <= m THEN b[i] ELSE s[i - m]
        BY <2>7, <3>1, <4>1
      <4> QED
        BY <4>2, <4>3
    <3> QED
      BY <3>3, <3>4, <3>5
  <2>11. ASSUME x5 < ChrSize
         PROVE  [Chr!Filled(v) EXCEPT ![x5 + 1] = s[k + 1]] = Chr!Filled(w)
    <3>1. \A i \in 1 .. ChrSize :
            (IF i = x5 + 1 THEN s[k + 1] ELSE IF i <= Len(v) THEN v[i] ELSE Chr!NUL)
              = (IF i <= Len(w) THEN w[i] ELSE Chr!NUL)
      <4> SUFFICES ASSUME NEW i \in 1 .. ChrSize
                   PROVE  (IF i = x5 + 1 THEN s[k + 1] ELSE IF i <= Len(v) THEN v[i] ELSE Chr!NUL)
                            = (IF i <= Len(w) THEN w[i] ELSE Chr!NUL)
        OBVIOUS
      <4>1. CASE i <= x5
        BY <1>1, <1>10, <2>11, <2>5, <2>10, <4>1
      <4>2. CASE i = x5 + 1
        BY <1>1, <1>10, <2>11, <2>5, <2>10, <4>2
      <4>3. CASE i > x5 + 1
        BY <1>1, <1>10, <2>11, <2>5, <2>10, <4>3
      <4> QED
        BY <1>1, <1>10, <2>11, <4>1, <4>2, <4>3
    <3>2. [Chr!Filled(v) EXCEPT ![x5 + 1] = s[k + 1]]
            = [i \in 1 .. ChrSize |-> IF i = x5 + 1 THEN s[k + 1]
                                      ELSE IF i <= Len(v) THEN v[i] ELSE Chr!NUL]
      BY <1>1, <1>10, <2>11 DEF Chr!Filled
    <3> QED
      BY <3>1, <3>2 DEF Chr!Filled
  <2>12. ASSUME x5 >= ChrSize
         PROVE  Chr!Filled(v) = Chr!Filled(w)
    <3>1. \A i \in 1 .. ChrSize : i <= Len(v) /\ i <= Len(w) /\ w[i] = v[i]
      BY <1>1, <1>10, <2>5, <2>10, <2>12
    <3> QED
      BY <3>1 DEF Chr!Filled
  <2>13. x4' = Chr!Filled(w) /\ x5' = Len(w)
    <3>1. CASE x5 < ChrSize /\ x4' = [x4 EXCEPT ![x5 + 1] = Head(x7[t].rest)]
      BY <1>1, <1>4, <2>5, <2>10, <2>11, <3>1
    <3>2. CASE x5 >= ChrSize /\ x4' = x4
      BY <1>1, <2>5, <2>10, <2>12, <3>2
    <3> QED
      BY <1>20, <3>1, <3>2
  <2> QED
    BY <2>1, <2>4, <2>6, <2>13
<1>15. Chr!MemoryInv'
  <2>1. Len(x4') = ChrSize
    BY <1>11
  <2>2. ~x9' => /\ \A u \in ChrTasks : x7'[u].cmd = "echo" => u = t
                /\ x7'[t].cmd = "echo" /\ x4' = Chr!Filled(x8'.bytes \o Chr!Written(x7'[t]))
                /\ x5' = Len(x8'.bytes \o Chr!Written(x7'[t]))
    BY <1>1, <1>6, <1>9, <1>14
  <2> QED
    BY <2>1, <2>2 DEF Chr!MemoryInv, Chr!Holds
<1>16. Chr!SingleInv' /\ Chr!ProcfsInv'
  BY <1>1 DEF Chr!SingleInv, Chr!ProcfsInv, Chr!IsMemory
<1> QED
  BY <1>9, <1>12, <1>13, <1>15, <1>16 DEF Chr!IInv

LEMMA ChrCut ==
  ASSUME NEW s \in Seq(Chr!Bytes)
  PROVE  Chr!Cut(s) \in Seq(Chr!Bytes)
<1>1. Len(s) \in Nat /\ ChrSize - 1 \in Nat /\ \A i \in 1 .. Len(s) : s[i] \in Chr!Bytes
  BY LenProperties, ElementOfSeq, ChrText
<1>2. PICK m : m = Chr!Min({Len(s), ChrSize - 1})
  OBVIOUS
<1>3. m \in {Len(s), ChrSize - 1} /\ m <= Len(s)
  <2> DEFINE M == {Len(s), ChrSize - 1}
  <2>1. \E x \in M : \A y \in M : x <= y
    BY <1>1
  <2>2. m \in M /\ \A y \in M : m <= y
    BY <1>2, <2>1 DEF Chr!Min
  <2> QED
    BY <2>2
<1>4. m \in Int /\ \A i \in 1 .. m : s[i] \in Chr!Bytes
  BY <1>1, <1>3
<1>5. SubSeq(s, 1, m) \in Seq(Chr!Bytes)
  BY <1>4, SubSeqProperties
<1> QED
  BY <1>2, <1>5 DEF Chr!Cut

LEMMA ChrCalm ==
  ASSUME Chr!IInv, NEW t \in ChrTasks, UNCHANGED <<x1, x2, x4, x5, x8>>, ~x9' => ~x9,
         \A u \in ChrTasks : u # t => x7'[u] = x7[u],
         x7[t].cmd # "echo", x7'[t].cmd # "echo"
  PROVE  Chr!MemoryInv' /\ Chr!SingleInv' /\ Chr!ProcfsInv'
<1>1. \A u \in ChrTasks : x7'[u].cmd = "echo" <=> x7[u].cmd = "echo"
  OBVIOUS
<1>2. \A u \in ChrTasks : x7[u].cmd = "echo" => x7'[u] = x7[u]
  OBVIOUS
<1>3. \A u \in ChrTasks : Chr!Untouched(x7'[u]) <=> Chr!Untouched(x7[u])
  BY DEF Chr!Untouched
<1>4. \A u \in ChrTasks : ~Chr!Untouched(x7[u]) => x7'[u] = x7[u]
  BY DEF Chr!Untouched
<1>5. Chr!MemoryInv'
  BY <1>1, <1>2 DEF Chr!IInv, Chr!MemoryInv, Chr!Holds, Chr!IsMemory
<1>6. Chr!SingleInv'
  BY <1>3, <1>4 DEF Chr!IInv, Chr!SingleInv
<1>7. Chr!ProcfsInv'
  BY <1>3, <1>4 DEF Chr!IInv, Chr!ProcfsInv
<1> QED
  BY <1>5, <1>6, <1>7

LEMMA ChrSingleWrite ==
  ASSUME Chr!IInv, ~x11, NEW t \in ChrTasks, Chr!SingleWrite(t)
  PROVE  Chr!IInv'
<1>1. /\ Chr!Writes(t) /\ x1 = "single" /\ x7' = Chr!Unwritten(t, 1)
      /\ x4' = <<Chr!Last(x7[t].rest)>> /\ UNCHANGED <<x1, x2, x3, x5, x6, x8, x9, x11>>
  BY DEF Chr!SingleWrite
<1>2. PICK f \in Chr!Files : f = x7[t] /\ f.cmd = "echo"
  BY <1>1, ChrWrites
<1>3. PICK s \in Seq(Chr!Bytes) : s = x7[t].text /\ s \in ChrTexts /\ x2
  BY <1>1, ChrWrites
<1>4. PICK k \in 0 .. Len(s), q \in Seq(Chr!Bytes) :
        /\ k + 1 \in 0 .. Len(s) /\ Len(s) - Len(x7[t].rest) = k /\ q = SubSeq(s, k + 2, Len(s))
        /\ SubSeq(x7[t].rest, 1 + 1, Len(x7[t].rest)) = q /\ Len(s) - Len(q) = k + 1
        /\ Head(x7[t].rest) = s[k + 1] /\ s[k + 1] \in Chr!Bytes
        /\ x7[t].rest[Len(x7[t].rest)] = s[Len(s)] /\ s[Len(s)] \in Chr!Bytes
  BY <1>1, <1>3, ChrWrites
<1> DEFINE r == [f EXCEPT !.rest = q]
<1>6. r \in Chr!Files /\ r.cmd = "echo" /\ r.text = s /\ r.rest = q
  BY <1>2, <1>3 DEF Chr!Files
<1>7. x7' = [x7 EXCEPT ![t] = r]
  BY <1>1, <1>2, <1>4 DEF Chr!Unwritten
<1> HIDE DEF r
<1>8. Chr!FileOK(r)
  <2>1. PICK l \in 0 .. Len(s) : l = k + 1 /\ l + 1 = k + 2
    BY <1>4, LenProperties
  <2> QED
    BY <1>1, <1>3, <1>4, <1>6, <2>1 DEF Chr!FileOK
<1>9. /\ Chr!FilesInv' /\ Chr!AloneInv' /\ Chr!ReadersInv' /\ x7' \in [ChrTasks -> Chr!Files]
      /\ x7'[t] = r
      /\ ~x9 => \A u \in ChrTasks : u # t => x7[u].cmd \in {"none", "gone"} /\ x7'[u] = x7[u]
  BY <1>1, <1>2, <1>6, <1>7, <1>8, ChrStep
<1>10. Chr!TypeOK' /\ x4' = <<Chr!Last(s)>>
  <2>1. x4' = <<s[Len(s)]>>
    BY <1>1, <1>4 DEF Chr!Last
  <2>2. <<s[Len(s)]>> \in Seq(Chr!Bytes)
    <3>1. PICK e \in Chr!Bytes : e = s[Len(s)]
      BY <1>4
    <3> QED
      BY <3>1, SeqOne
  <2> QED
    BY <1>1, <1>9, <2>1, <2>2 DEF Chr!IInv, Chr!TypeOK, Chr!Last
<1>11. Chr!LoadAllOrNothing' /\ Chr!NullInv' /\ Chr!CrashInv' /\ x11' \in BOOLEAN
  BY <1>1, ChrSame
<1>12. Chr!MemoryInv' /\ Chr!ProcfsInv'
  BY <1>1 DEF Chr!MemoryInv, Chr!ProcfsInv, Chr!IsMemory
<1>13. Chr!SingleInv'
  <2>1. q # s
    BY <1>4, LenProperties
  <2>2. ~Chr!Untouched(x7'[t]) /\ x7'[t].text = s
    BY <1>6, <1>9, <2>1 DEF Chr!Untouched
  <2>3. ~x9 => \A u \in ChrTasks : u # t => Chr!Untouched(x7'[u])
    BY <1>9 DEF Chr!Untouched
  <2> QED
    BY <1>1, <1>10, <2>2, <2>3 DEF Chr!SingleInv
<1> QED
  BY <1>9, <1>10, <1>11, <1>12, <1>13 DEF Chr!IInv

\* A buffer of one byte.
LEMMA ChrOne ==
  ASSUME NEW c \in Chr!Bytes
  PROVE  <<c>> \in Seq(Chr!Bytes) /\ Len(<<c>>) = 1
OBVIOUS

LEMMA ChrParlelportWrite ==
  ASSUME Chr!IInv, ~x11, NEW t \in ChrTasks, Chr!ParlelportWrite(t)
  PROVE  Chr!IInv'
<1>1. /\ Chr!Writes(t) /\ x1 = "parlelport" /\ x7' = Chr!Unwritten(t, 1) /\ x5' = x5 + 1
      /\ x4' \in {<<Head(x7[t].rest)>>, x4} /\ x6' = x4'[1]
      /\ UNCHANGED <<x1, x2, x3, x8, x9>> /\ x5 \in Nat
  BY DEF Chr!ParlelportWrite, Chr!IInv, Chr!TypeOK
<1>20. x11' \in BOOLEAN /\ (x5 # 0 \/ ~x11')
  <2>1. CASE x5 = 0
    <3>1. x11' = x11 /\ x11 \in BOOLEAN
      BY <2>1, Zenon DEF Chr!ParlelportWrite, Chr!IInv, Chr!TypeOK
    <3> QED
      BY <3>1, Zenon
  <2>2. CASE x5 # 0
    <3>1. x11' \in BOOLEAN
      BY <2>2, Zenon DEF Chr!ParlelportWrite
    <3> QED
      BY <2>2, <3>1
  <2> QED
    BY <2>1, <2>2
<1>2. PICK f \in Chr!Files : f = x7[t] /\ f.cmd = "echo"
  BY <1>1, ChrWrites
<1>3. PICK s \in Seq(Chr!Bytes) : s = x7[t].text /\ s \in ChrTexts /\ x2
  BY <1>1, ChrWrites
<1>4. PICK k \in 0 .. Len(s), q \in Seq(Chr!Bytes) :
        /\ k + 1 \in 0 .. Len(s) /\ Len(s) - Len(x7[t].rest) = k /\ q = SubSeq(s, k + 2, Len(s))
        /\ SubSeq(x7[t].rest, 1 + 1, Len(x7[t].rest)) = q /\ Len(s) - Len(q) = k + 1
        /\ Head(x7[t].rest) = s[k + 1] /\ s[k + 1] \in Chr!Bytes
        /\ x7[t].rest[Len(x7[t].rest)] = s[Len(s)] /\ s[Len(s)] \in Chr!Bytes
  BY <1>1, <1>3, ChrWrites
<1> DEFINE r == [f EXCEPT !.rest = q]
<1>6. r \in Chr!Files /\ r.cmd = "echo" /\ r.text = s /\ r.rest = q
  BY <1>2, <1>3 DEF Chr!Files
<1>7. x7' = [x7 EXCEPT ![t] = r]
  BY <1>1, <1>2, <1>4 DEF Chr!Unwritten
<1> HIDE DEF r
<1>8. Chr!FileOK(r)
  <2>1. PICK l \in 0 .. Len(s) : l = k + 1 /\ l + 1 = k + 2
    BY <1>4, LenProperties
  <2> QED
    BY <1>1, <1>3, <1>4, <1>6, <2>1 DEF Chr!FileOK
<1>9. /\ Chr!FilesInv' /\ Chr!AloneInv' /\ Chr!ReadersInv' /\ x7' \in [ChrTasks -> Chr!Files]
      /\ x7'[t] = r
      /\ ~x9 => \A u \in ChrTasks : u # t => x7[u].cmd \in {"none", "gone"} /\ x7'[u] = x7[u]
  BY <1>1, <1>2, <1>6, <1>7, <1>8, ChrStep
<1>10. Chr!TypeOK'
  <2>1. x4' \in Seq(Chr!Bytes) /\ Len(x4') = 1
    <3>1. <<s[k + 1]>> \in Seq(Chr!Bytes) /\ Len(<<s[k + 1]>>) = 1
      BY <1>4, ChrOne, Zenon
    <3>2. x4 \in Seq(Chr!Bytes) /\ Len(x4) = 1
      BY <1>1 DEF Chr!IInv, Chr!TypeOK
    <3>3. x4' = <<s[k + 1]>> \/ x4' = x4
      BY <1>1, <1>4
    <3>4. CASE x4' = <<s[k + 1]>>
      BY <3>1, <3>4
    <3>5. CASE x4' = x4
      BY <3>2, <3>5
    <3> QED
      BY <3>3, <3>4, <3>5
  <2>2. x6' \in Chr!Bytes
    <3>1. PICK y \in Seq(Chr!Bytes) : y = x4' /\ Len(y) = 1
      BY <2>1
    <3>2. y[1] \in Chr!Bytes
      <4>1. \A i \in 1 .. Len(y) : y[i] \in Chr!Bytes
        BY ElementOfSeq
      <4>2. 1 \in 1 .. Len(y)
        BY <3>1
      <4> QED
        BY <4>1, <4>2, Zenon
    <3> QED
      BY <1>1, <3>1, <3>2
  <2> QED
    BY <1>1, <1>9, <1>20, <2>1, <2>2 DEF Chr!IInv, Chr!TypeOK
<1>11. Chr!LoadAllOrNothing' /\ Chr!NullInv' /\ Chr!CrashInv'
  <2>1. Chr!LoadAllOrNothing' /\ Chr!NullInv'
    BY <1>1 DEF Chr!IInv, Chr!LoadAllOrNothing, Chr!Wants, Chr!Unchecked, Chr!NullInv
  <2>2. x5' > 1 \/ ~x11'
    BY <1>1, <1>20
  <2>3. Chr!CrashInv'
    BY <1>1, <2>2 DEF Chr!CrashInv
  <2> QED
    BY <2>1, <2>3
<1>12. Chr!MemoryInv' /\ Chr!ProcfsInv' /\ Chr!SingleInv'
  BY <1>1 DEF Chr!MemoryInv, Chr!ProcfsInv, Chr!SingleInv, Chr!IsMemory
<1> QED
  BY <1>9, <1>10, <1>11, <1>12 DEF Chr!IInv

LEMMA ChrProcfsWrite ==
  ASSUME Chr!IInv, ~x11, NEW t \in ChrTasks, Chr!ProcfsWrite(t)
  PROVE  Chr!IInv'
<1>1. /\ Chr!Writes(t) /\ x1 = "procfs" /\ x4' = Chr!Cut(x7[t].rest)
      /\ x7' = [Chr!Unwritten(t, Len(x7[t].rest)) EXCEPT ![t].pos = 0]
      /\ UNCHANGED <<x1, x2, x3, x5, x6, x8, x9, x11>>
  BY DEF Chr!ProcfsWrite, Chr!Cut
<1>2. PICK f \in Chr!Files : f = x7[t] /\ f.cmd = "echo"
  BY <1>1, ChrWrites
<1>3. PICK s \in Seq(Chr!Bytes) : s = x7[t].text /\ s \in ChrTexts /\ x2 /\ s # <<>>
  BY <1>1, ChrWrites, ChrText
<1>4. x7[t].rest = s
  BY <1>1, <1>2, <1>3 DEF Chr!Writes, Chr!IInv, Chr!FilesInv, Chr!FileOK
<1>5. SubSeq(s, Len(s) + 1, Len(s)) = <<>> /\ <<>> \in Seq(Chr!Bytes) /\ Len(s) \in Nat
  BY SeqWhole, ChrText, LenProperties
<1> DEFINE r == [f EXCEPT !.rest = <<>>, !.pos = 0]
<1>6. r \in Chr!Files /\ r.cmd = "echo" /\ r.text = s /\ r.rest = <<>>
  BY <1>2, <1>3, <1>5 DEF Chr!Files
<1>7. x7' = [x7 EXCEPT ![t] = r]
  <2>1. x7 \in [ChrTasks -> Chr!Files]
    BY DEF Chr!IInv, Chr!TypeOK
  <2>2. x7' = [[x7 EXCEPT ![t].rest = <<>>] EXCEPT ![t].pos = 0]
    BY <1>1, <1>4, <1>5 DEF Chr!Unwritten
  <2> QED
    BY <1>2, <2>1, <2>2
<1> HIDE DEF r
<1>8. Chr!FileOK(r)
  <2>1. Len(s) \in 0 .. Len(s) /\ r.rest = SubSeq(s, Len(s) + 1, Len(s))
    BY <1>5, <1>6
  <2> QED
    BY <1>3, <1>6, <2>1 DEF Chr!FileOK
<1>9. /\ Chr!FilesInv' /\ Chr!AloneInv' /\ Chr!ReadersInv' /\ x7' \in [ChrTasks -> Chr!Files]
      /\ x7'[t] = r
      /\ ~x9 => \A u \in ChrTasks : u # t => x7[u].cmd \in {"none", "gone"} /\ x7'[u] = x7[u]
  BY <1>1, <1>2, <1>6, <1>7, <1>8, ChrStep
<1>10. Chr!TypeOK' /\ x4' = Chr!Cut(s)
  BY <1>1, <1>4, <1>9, ChrCut DEF Chr!IInv, Chr!TypeOK
<1>11. Chr!LoadAllOrNothing' /\ Chr!NullInv' /\ Chr!CrashInv' /\ x11' \in BOOLEAN
  BY <1>1, ChrSame
<1>12. Chr!MemoryInv' /\ Chr!SingleInv'
  BY <1>1 DEF Chr!MemoryInv, Chr!SingleInv, Chr!IsMemory
<1>13. Chr!ProcfsInv'
  <2>1. ~Chr!Untouched(x7'[t]) /\ x7'[t].text = s
    BY <1>3, <1>6, <1>9 DEF Chr!Untouched
  <2>2. ~x9 => \A u \in ChrTasks : u # t => Chr!Untouched(x7'[u])
    BY <1>9 DEF Chr!Untouched
  <2> QED
    BY <1>1, <1>10, <2>1, <2>2 DEF Chr!ProcfsInv
<1> QED
  BY <1>9, <1>10, <1>11, <1>12, <1>13 DEF Chr!IInv

LEMMA ChrKept ==
  ASSUME Chr!IInv, UNCHANGED <<x1, x2, x3, x4, x5, x6, x7, x8, x9>>, x11' \in BOOLEAN
  PROVE  /\ Chr!TypeOK' /\ Chr!LoadAllOrNothing' /\ Chr!NullInv' /\ Chr!FilesInv' /\ Chr!AloneInv'
         /\ Chr!ReadersInv' /\ Chr!MemoryInv' /\ Chr!SingleInv' /\ Chr!ProcfsInv'
<1>1. Chr!TypeOK' /\ Chr!NullInv'
  BY DEF Chr!IInv, Chr!TypeOK, Chr!NullInv
<1>2. Chr!LoadAllOrNothing'
  BY DEF Chr!IInv, Chr!LoadAllOrNothing, Chr!Wants, Chr!Unchecked
<1>3. Chr!FilesInv' /\ Chr!AloneInv' /\ Chr!ReadersInv'
  BY DEF Chr!IInv, Chr!FilesInv, Chr!FileOK, Chr!AloneInv, Chr!Busy, Chr!ReadersInv,
     Chr!ReaderOK
<1>4. Chr!MemoryInv' /\ Chr!SingleInv' /\ Chr!ProcfsInv'
  BY DEF Chr!IInv, Chr!MemoryInv, Chr!Holds, Chr!IsMemory, Chr!SingleInv, Chr!ProcfsInv
<1> QED
  BY <1>1, <1>2, <1>3, <1>4

\* The steps that crash leave all else alone.
LEMMA ChrCrash ==
  ASSUME Chr!IInv, NEW t \in ChrTasks, Chr!Stale(t) \/ Chr!ProcfsWriteCrash(t)
  PROVE  Chr!IInv'
<1>1. UNCHANGED <<x1, x2, x3, x4, x5, x6, x7, x8, x9>>
  BY DEF Chr!Stale, Chr!ProcfsWriteCrash
<1>2. x11' \in BOOLEAN
  BY Zenon DEF Chr!Stale, Chr!ProcfsWriteCrash
<1>3. Chr!CrashInv'
  <2>1. CASE Chr!Stale(t)
    <3>1. x7[t].cmd = "gone" /\ x1 # "procfs"
      BY <2>1 DEF Chr!Stale, Chr!IInv, Chr!FilesInv, Chr!FileOK
    <3> QED
      BY <1>1, <3>1 DEF Chr!CrashInv
  <2>2. CASE Chr!ProcfsWriteCrash(t)
    <3>1. x1 = "procfs" /\ "buffer" \notin x3 /\ Chr!Writes(t)
      BY <2>2 DEF Chr!ProcfsWriteCrash
    <3>2. "buffer" \in ChrFailures \ x3
      BY <3>1, ChrWrites DEF Chr!IInv, Chr!NullInv
    <3> QED
      BY <1>1, <3>1, <3>2 DEF Chr!CrashInv
  <2> QED
    BY <2>1, <2>2
<1> QED
  BY <1>1, <1>2, <1>3, ChrKept DEF Chr!IInv

LEMMA ChrMemoryRead ==
  ASSUME Chr!IInv, ~x11, NEW t \in ChrTasks, Chr!MemoryRead(t)
  PROVE  Chr!IInv'
<1>1. /\ Chr!Reads(t) /\ x1 \in {"memory", "minimal"} /\ UNCHANGED <<x1, x2, x3, x6, x9, x11>>
      /\ \/ x7[t].pos = 0 /\ Chr!Gives(t, x4, ChrSize) /\ UNCHANGED <<x4, x5, x8>>
         \/ Chr!Ends(t) /\ Chr!MemoryCleanup /\ x8' = Chr!Blank
  BY DEF Chr!MemoryRead, Chr!IsMemory
<1>2. PICK f \in Chr!Files : f = x7[t] /\ f.cmd = "cat"
  BY <1>1 DEF Chr!Reads, Chr!IInv, Chr!TypeOK
<1>3. /\ x4 \in Seq(Chr!Bytes) /\ <<>> \o x4 = x4 /\ Len(x4) \in Nat /\ ChrSize \in Nat \ {0}
      /\ Len(x4) = 0 => x4 = <<>>
  BY LenProperties, EmptySeq, ConcatEmptySeq, ChrText DEF Chr!IInv, Chr!TypeOK
<1>4. f.pos = 0 => f.got = <<>>
  BY <1>2 DEF Chr!IInv, Chr!ReadersInv, Chr!ReaderOK
<1>5. CASE x7[t].pos = 0 /\ Chr!Gives(t, x4, ChrSize) /\ UNCHANGED <<x4, x5, x8>>
  <2> DEFINE r == [f EXCEPT !.got = x4, !.pos = ChrSize]
  <2>1. r \in Chr!Files /\ r.cmd = "cat" /\ r.got = x4 /\ r.pos = ChrSize
    BY <1>2, <1>3 DEF Chr!Files
  <2>2. x7' = [x7 EXCEPT ![t] = r]
    <3>1. x7' = [x7 EXCEPT ![t].got = x4, ![t].pos = ChrSize]
      BY <1>1, <1>2, <1>3, <1>4, <1>5 DEF Chr!Gives
    <3>2. x7 \in [ChrTasks -> Chr!Files]
      BY DEF Chr!IInv, Chr!TypeOK
    <3> QED
      BY <1>2, <3>1, <3>2
  <2> HIDE DEF r
  <2>3. Chr!FileOK(r)
    BY <1>2, <2>1 DEF Chr!FileOK, Chr!IInv, Chr!FilesInv
  <2>4. /\ Chr!FilesInv' /\ Chr!AloneInv' /\ Chr!ReadersInv' /\ x7' \in [ChrTasks -> Chr!Files]
        /\ x7'[t] = r /\ \A u \in ChrTasks : u # t => x7'[u] = x7[u]
    <3>1. UNCHANGED <<x1, x2, x9>> /\ x4' = x4 /\ x1 # "parlelport" /\ x7[t].cmd \notin {"none", "gone"}
      BY <1>1, <1>2, <1>5
    <3>2. /\ r.pos = 0 => r.got = <<>>
          /\ r.pos # 0 => x1 # "parlelport" /\ (~x9 => r.got = x4')
      BY <1>3, <2>1, <3>1
    <3> QED
      BY <2>1, <2>2, <2>3, <3>1, <3>2, ChrStep
  <2>5. Chr!MemoryInv' /\ Chr!SingleInv' /\ Chr!ProcfsInv'
    <3>1. UNCHANGED <<x1, x2, x4, x5, x8, x9>>
      BY <1>1, <1>5
    <3> QED
      BY <1>2, <2>1, <2>4, <3>1, ChrCalm
  <2>6. Chr!LoadAllOrNothing' /\ Chr!NullInv' /\ Chr!CrashInv' /\ x11' \in BOOLEAN
    BY <1>1, ChrSame
  <2>7. Chr!TypeOK'
    BY <1>1, <1>5, <2>4, <2>6 DEF Chr!IInv, Chr!TypeOK
  <2> QED
    BY <2>4, <2>5, <2>6, <2>7 DEF Chr!IInv
<1>6. CASE Chr!Ends(t) /\ Chr!MemoryCleanup /\ x8' = Chr!Blank
  <2> DEFINE r == [f EXCEPT !.cmd = "done"]
  <2>1. r \in Chr!Files /\ r.cmd = "done"
    BY <1>2 DEF Chr!Files
  <2>2. x7' = [x7 EXCEPT ![t] = r]
    BY <1>1, <1>2, <1>6 DEF Chr!Ends
  <2> HIDE DEF r
  <2>3. Chr!FileOK(r)
    BY <1>2, <2>1 DEF Chr!FileOK, Chr!IInv, Chr!FilesInv
  <2>4. /\ Chr!FilesInv' /\ Chr!AloneInv' /\ Chr!ReadersInv' /\ x7' \in [ChrTasks -> Chr!Files]
        /\ x7'[t] = r /\ \A u \in ChrTasks : u # t => x7'[u] = x7[u]
        /\ ~x9 => \A u \in ChrTasks : u # t => x7'[u].cmd \in {"none", "gone"}
    <3>1. UNCHANGED <<x1, x2, x9>> /\ x7[t].cmd \notin {"none", "gone"}
      BY <1>1, <1>2
    <3> QED
      BY <2>1, <2>2, <2>3, <3>1, ChrStep
  <2>5. x4' = Chr!Filled(<<>>) /\ x5' = Len(<<>>) /\ x8' \in Chr!Logs /\ x8'.bytes = <<>>
    BY <1>3, <1>6, ChrText DEF Chr!MemoryCleanup, Chr!Zeroes, Chr!Filled, Chr!Blank, Chr!Logs
  <2>6. x4' \in Seq(Chr!Bytes) /\ Len(x4') = ChrSize /\ x5' = 0
    <3>1. x4' = [i \in 1 .. ChrSize |-> Chr!NUL] /\ x5' = 0
      BY <1>6 DEF Chr!MemoryCleanup, Chr!Zeroes
    <3>2. Chr!NUL \in Chr!Bytes /\ ChrSize \in Nat
      BY ChrText
    <3> QED
      BY <3>1, <3>2
  <2>7. Chr!MemoryInv'
    BY <1>1, <1>3, <2>1, <2>4, <2>5, <2>6 DEF Chr!MemoryInv, Chr!Holds
  <2>8. Chr!SingleInv' /\ Chr!ProcfsInv'
    BY <1>1 DEF Chr!SingleInv, Chr!ProcfsInv
  <2>9. Chr!LoadAllOrNothing' /\ Chr!NullInv' /\ Chr!CrashInv' /\ x11' \in BOOLEAN
    BY <1>1, ChrSame
  <2>10. Chr!TypeOK'
    BY <1>1, <2>4, <2>5, <2>6, <2>9 DEF Chr!IInv, Chr!TypeOK
  <2> QED
    BY <2>4, <2>7, <2>8, <2>9, <2>10 DEF Chr!IInv
<1> QED
  BY <1>1, <1>5, <1>6

LEMMA ChrSingleRead ==
  ASSUME Chr!IInv, ~x11, NEW t \in ChrTasks, Chr!SingleRead(t)
  PROVE  Chr!IInv'
<1>1. /\ Chr!Reads(t) /\ x1 = "single" /\ UNCHANGED <<x1, x2, x3, x4, x5, x6, x8, x9, x11>>
      /\ \/ x7[t].pos = 0 /\ Chr!Gives(t, x4, 1)
         \/ Chr!Ends(t)
  BY DEF Chr!SingleRead
<1>2. PICK f \in Chr!Files : f = x7[t] /\ f.cmd = "cat"
  BY <1>1 DEF Chr!Reads, Chr!IInv, Chr!TypeOK
<1>3. /\ x4 \in Seq(Chr!Bytes) /\ <<>> \o x4 = x4 /\ Len(x4) \in Nat /\ ChrSize \in Nat \ {0}
      /\ Len(x4) = 0 => x4 = <<>>
  BY LenProperties, EmptySeq, ConcatEmptySeq, ChrText DEF Chr!IInv, Chr!TypeOK
<1>4. f.pos = 0 => f.got = <<>>
  BY <1>2 DEF Chr!IInv, Chr!ReadersInv, Chr!ReaderOK
<1>5. CASE x7[t].pos = 0 /\ Chr!Gives(t, x4, 1)
  <2> DEFINE r == [f EXCEPT !.got = x4, !.pos = 1]
  <2>1. r \in Chr!Files /\ r.cmd = "cat" /\ r.got = x4 /\ r.pos = 1
    BY <1>2, <1>3 DEF Chr!Files
  <2>2. x7' = [x7 EXCEPT ![t] = r]
    <3>1. x7' = [x7 EXCEPT ![t].got = x4, ![t].pos = 1]
      BY <1>1, <1>2, <1>3, <1>4, <1>5 DEF Chr!Gives
    <3>2. x7 \in [ChrTasks -> Chr!Files]
      BY DEF Chr!IInv, Chr!TypeOK
    <3> QED
      BY <1>2, <3>1, <3>2
  <2> HIDE DEF r
  <2>3. Chr!FileOK(r)
    BY <1>2, <2>1 DEF Chr!FileOK, Chr!IInv, Chr!FilesInv
  <2>4. /\ Chr!FilesInv' /\ Chr!AloneInv' /\ Chr!ReadersInv' /\ x7' \in [ChrTasks -> Chr!Files]
        /\ x7'[t] = r /\ \A u \in ChrTasks : u # t => x7'[u] = x7[u]
    <3>1. UNCHANGED <<x1, x2, x9>> /\ x4' = x4 /\ x1 # "parlelport" /\ x7[t].cmd \notin {"none", "gone"}
      BY <1>1, <1>2, <1>5
    <3>2. /\ r.pos = 0 => r.got = <<>>
          /\ r.pos # 0 => x1 # "parlelport" /\ (~x9 => r.got = x4')
      BY <1>3, <2>1, <3>1
    <3> QED
      BY <2>1, <2>2, <2>3, <3>1, <3>2, ChrStep
  <2>5. Chr!MemoryInv' /\ Chr!SingleInv' /\ Chr!ProcfsInv'
    <3>1. UNCHANGED <<x1, x2, x4, x5, x8, x9>>
      BY <1>1, <1>5
    <3> QED
      BY <1>2, <2>1, <2>4, <3>1, ChrCalm
  <2>6. Chr!LoadAllOrNothing' /\ Chr!NullInv' /\ Chr!CrashInv' /\ x11' \in BOOLEAN
    BY <1>1, ChrSame
  <2>7. Chr!TypeOK'
    BY <1>1, <1>5, <2>4, <2>6 DEF Chr!IInv, Chr!TypeOK
  <2> QED
    BY <2>4, <2>5, <2>6, <2>7 DEF Chr!IInv
<1>6. CASE Chr!Ends(t)
  <2> DEFINE r == [f EXCEPT !.cmd = "done"]
  <2>1. r \in Chr!Files /\ r.cmd = "done"
    BY <1>2 DEF Chr!Files
  <2>2. x7' = [x7 EXCEPT ![t] = r]
    BY <1>1, <1>2, <1>6 DEF Chr!Ends
  <2> HIDE DEF r
  <2>3. Chr!FileOK(r)
    BY <1>2, <2>1 DEF Chr!FileOK, Chr!IInv, Chr!FilesInv
  <2>4. /\ Chr!FilesInv' /\ Chr!AloneInv' /\ Chr!ReadersInv' /\ x7' \in [ChrTasks -> Chr!Files]
        /\ x7'[t] = r /\ \A u \in ChrTasks : u # t => x7'[u] = x7[u]
        /\ ~x9 => \A u \in ChrTasks : u # t => x7'[u].cmd \in {"none", "gone"}
    <3>1. UNCHANGED <<x1, x2, x9>> /\ x7[t].cmd \notin {"none", "gone"}
      BY <1>1, <1>2
    <3> QED
      BY <2>1, <2>2, <2>3, <3>1, ChrStep
  <2>5. Chr!MemoryInv' /\ Chr!SingleInv' /\ Chr!ProcfsInv'
    <3>1. UNCHANGED <<x1, x2, x4, x5, x8, x9>>
      BY <1>1, <1>6
    <3> QED
      BY <1>2, <2>1, <2>4, <3>1, ChrCalm
  <2>6. Chr!LoadAllOrNothing' /\ Chr!NullInv' /\ Chr!CrashInv' /\ x11' \in BOOLEAN
    BY <1>1, ChrSame
  <2>7. Chr!TypeOK'
    BY <1>1, <1>6, <2>4, <2>6 DEF Chr!IInv, Chr!TypeOK
  <2> QED
    BY <2>4, <2>5, <2>6, <2>7 DEF Chr!IInv
<1> QED
  BY <1>1, <1>5, <1>6

LEMMA ChrProcfsRead ==
  ASSUME Chr!IInv, ~x11, NEW t \in ChrTasks, Chr!ProcfsRead(t)
  PROVE  Chr!IInv'
<1>1. /\ Chr!Reads(t) /\ x1 = "procfs" /\ UNCHANGED <<x1, x2, x3, x4, x5, x6, x8, x9, x11>>
      /\ \/ x7[t].pos = 0 /\ Chr!Gives(t, x4, Len(x4))
         \/ Chr!Ends(t)
  BY DEF Chr!ProcfsRead
<1>2. PICK f \in Chr!Files : f = x7[t] /\ f.cmd = "cat"
  BY <1>1 DEF Chr!Reads, Chr!IInv, Chr!TypeOK
<1>3. /\ x4 \in Seq(Chr!Bytes) /\ <<>> \o x4 = x4 /\ Len(x4) \in Nat /\ ChrSize \in Nat \ {0}
      /\ Len(x4) = 0 => x4 = <<>>
  BY LenProperties, EmptySeq, ConcatEmptySeq, ChrText DEF Chr!IInv, Chr!TypeOK
<1>4. f.pos = 0 => f.got = <<>>
  BY <1>2 DEF Chr!IInv, Chr!ReadersInv, Chr!ReaderOK
<1>5. CASE x7[t].pos = 0 /\ Chr!Gives(t, x4, Len(x4))
  <2> DEFINE r == [f EXCEPT !.got = x4, !.pos = Len(x4)]
  <2>1. r \in Chr!Files /\ r.cmd = "cat" /\ r.got = x4 /\ r.pos = Len(x4)
    BY <1>2, <1>3 DEF Chr!Files
  <2>2. x7' = [x7 EXCEPT ![t] = r]
    <3>1. x7' = [x7 EXCEPT ![t].got = x4, ![t].pos = Len(x4)]
      BY <1>1, <1>2, <1>3, <1>4, <1>5 DEF Chr!Gives
    <3>2. x7 \in [ChrTasks -> Chr!Files]
      BY DEF Chr!IInv, Chr!TypeOK
    <3> QED
      BY <1>2, <3>1, <3>2
  <2> HIDE DEF r
  <2>3. Chr!FileOK(r)
    BY <1>2, <2>1 DEF Chr!FileOK, Chr!IInv, Chr!FilesInv
  <2>4. /\ Chr!FilesInv' /\ Chr!AloneInv' /\ Chr!ReadersInv' /\ x7' \in [ChrTasks -> Chr!Files]
        /\ x7'[t] = r /\ \A u \in ChrTasks : u # t => x7'[u] = x7[u]
    <3>1. UNCHANGED <<x1, x2, x9>> /\ x4' = x4 /\ x1 # "parlelport" /\ x7[t].cmd \notin {"none", "gone"}
      BY <1>1, <1>2, <1>5
    <3>2. /\ r.pos = 0 => r.got = <<>>
          /\ r.pos # 0 => x1 # "parlelport" /\ (~x9 => r.got = x4')
      BY <1>3, <2>1, <3>1
    <3> QED
      BY <2>1, <2>2, <2>3, <3>1, <3>2, ChrStep
  <2>5. Chr!MemoryInv' /\ Chr!SingleInv' /\ Chr!ProcfsInv'
    <3>1. UNCHANGED <<x1, x2, x4, x5, x8, x9>>
      BY <1>1, <1>5
    <3> QED
      BY <1>2, <2>1, <2>4, <3>1, ChrCalm
  <2>6. Chr!LoadAllOrNothing' /\ Chr!NullInv' /\ Chr!CrashInv' /\ x11' \in BOOLEAN
    BY <1>1, ChrSame
  <2>7. Chr!TypeOK'
    BY <1>1, <1>5, <2>4, <2>6 DEF Chr!IInv, Chr!TypeOK
  <2> QED
    BY <2>4, <2>5, <2>6, <2>7 DEF Chr!IInv
<1>6. CASE Chr!Ends(t)
  <2> DEFINE r == [f EXCEPT !.cmd = "done"]
  <2>1. r \in Chr!Files /\ r.cmd = "done"
    BY <1>2 DEF Chr!Files
  <2>2. x7' = [x7 EXCEPT ![t] = r]
    BY <1>1, <1>2, <1>6 DEF Chr!Ends
  <2> HIDE DEF r
  <2>3. Chr!FileOK(r)
    BY <1>2, <2>1 DEF Chr!FileOK, Chr!IInv, Chr!FilesInv
  <2>4. /\ Chr!FilesInv' /\ Chr!AloneInv' /\ Chr!ReadersInv' /\ x7' \in [ChrTasks -> Chr!Files]
        /\ x7'[t] = r /\ \A u \in ChrTasks : u # t => x7'[u] = x7[u]
        /\ ~x9 => \A u \in ChrTasks : u # t => x7'[u].cmd \in {"none", "gone"}
    <3>1. UNCHANGED <<x1, x2, x9>> /\ x7[t].cmd \notin {"none", "gone"}
      BY <1>1, <1>2
    <3> QED
      BY <2>1, <2>2, <2>3, <3>1, ChrStep
  <2>5. Chr!MemoryInv' /\ Chr!SingleInv' /\ Chr!ProcfsInv'
    <3>1. UNCHANGED <<x1, x2, x4, x5, x8, x9>>
      BY <1>1, <1>6
    <3> QED
      BY <1>2, <2>1, <2>4, <3>1, ChrCalm
  <2>6. Chr!LoadAllOrNothing' /\ Chr!NullInv' /\ Chr!CrashInv' /\ x11' \in BOOLEAN
    BY <1>1, ChrSame
  <2>7. Chr!TypeOK'
    BY <1>1, <1>6, <2>4, <2>6 DEF Chr!IInv, Chr!TypeOK
  <2> QED
    BY <2>4, <2>5, <2>6, <2>7 DEF Chr!IInv
<1> QED
  BY <1>1, <1>5, <1>6

LEMMA ChrParlelportRead ==
  ASSUME Chr!IInv, ~x11, NEW t \in ChrTasks, Chr!ParlelportRead(t)
  PROVE  Chr!IInv'
<1>1. /\ Chr!Reads(t) /\ x1 = "parlelport" /\ UNCHANGED <<x1, x2, x3, x5, x6, x8, x9, x11>>
      /\ Chr!Ends(t) /\ x4' = <<x6>>
  BY DEF Chr!ParlelportRead
<1>2. PICK f \in Chr!Files : f = x7[t] /\ f.cmd = "cat"
  BY <1>1 DEF Chr!Reads, Chr!IInv, Chr!TypeOK
<1>6. CASE Chr!Ends(t)
  <2> DEFINE r == [f EXCEPT !.cmd = "done"]
  <2>1. r \in Chr!Files /\ r.cmd = "done"
    BY <1>2 DEF Chr!Files
  <2>2. x7' = [x7 EXCEPT ![t] = r]
    BY <1>1, <1>2, <1>6 DEF Chr!Ends
  <2> HIDE DEF r
  <2>3. Chr!FileOK(r)
    BY <1>2, <2>1 DEF Chr!FileOK, Chr!IInv, Chr!FilesInv
  <2>4. /\ Chr!FilesInv' /\ Chr!AloneInv' /\ Chr!ReadersInv' /\ x7' \in [ChrTasks -> Chr!Files]
        /\ x7'[t] = r /\ \A u \in ChrTasks : u # t => x7'[u] = x7[u]
        /\ ~x9 => \A u \in ChrTasks : u # t => x7'[u].cmd \in {"none", "gone"}
    <3>1. UNCHANGED <<x1, x2, x9>> /\ x7[t].cmd \notin {"none", "gone"}
      BY <1>1, <1>2
    <3> QED
      BY <2>1, <2>2, <2>3, <3>1, ChrStep
  <2>5. x4' \in Seq(Chr!Bytes) /\ Len(x4') = 1
    BY <1>1 DEF Chr!IInv, Chr!TypeOK
  <2>6. Chr!MemoryInv' /\ Chr!SingleInv' /\ Chr!ProcfsInv'
    BY <1>1 DEF Chr!MemoryInv, Chr!SingleInv, Chr!ProcfsInv, Chr!IsMemory
  <2>7. Chr!LoadAllOrNothing' /\ Chr!NullInv' /\ Chr!CrashInv' /\ x11' \in BOOLEAN
    BY <1>1, ChrSame
  <2>8. Chr!TypeOK'
    BY <1>1, <2>4, <2>5, <2>7 DEF Chr!IInv, Chr!TypeOK
  <2> QED
    BY <2>4, <2>6, <2>7, <2>8 DEF Chr!IInv
<1> QED
  BY <1>1, <1>6

LEMMA ChrClose ==
  ASSUME Chr!IInv, ~x11, NEW t \in ChrTasks, Chr!Close(t)
  PROVE  Chr!IInv'
<1>1. /\ UNCHANGED <<x1, x2, x3, x4, x5, x6, x9, x11>> /\ x7[t].cmd \notin {"none", "gone"}
      /\ x7' = [x7 EXCEPT ![t] = Chr!Closed]
      /\ x7[t].cmd = "echo" => /\ x7[t].rest = <<>>
                               /\ x8' = [bytes |-> x8.bytes \o x7[t].text, latest |-> x7[t].text]
      /\ x7[t].cmd # "echo" => x8' = x8
  BY DEF Chr!Close
<1>2. Chr!Closed \in Chr!Files /\ Chr!Closed.cmd = "none"
  BY ChrText DEF Chr!Files, Chr!Closed
<1>3. Chr!FileOK(Chr!Closed)
  BY <1>2 DEF Chr!FileOK
<1>4. /\ Chr!FilesInv' /\ Chr!AloneInv' /\ Chr!ReadersInv' /\ x7' \in [ChrTasks -> Chr!Files]
      /\ x7'[t] = Chr!Closed /\ x2 /\ \A u \in ChrTasks : u # t => x7'[u] = x7[u]
      /\ ~x9 => \A u \in ChrTasks : u # t => x7[u].cmd \in {"none", "gone"} /\ x7'[u] = x7[u]
  BY <1>1, <1>2, <1>3, ChrStep
<1>5. Chr!LoadAllOrNothing' /\ Chr!NullInv' /\ Chr!CrashInv' /\ x11' \in BOOLEAN
  BY <1>1, ChrSame
<1>6. CASE x7[t].cmd # "echo"
  <2>1. Chr!MemoryInv' /\ Chr!SingleInv' /\ Chr!ProcfsInv'
    BY <1>1, <1>2, <1>4, <1>6, ChrCalm
  <2>2. Chr!TypeOK'
    BY <1>1, <1>4, <1>6 DEF Chr!IInv, Chr!TypeOK
  <2> QED
    BY <1>4, <1>5, <2>1, <2>2 DEF Chr!IInv
<1>7. CASE x7[t].cmd = "echo"
  <2>1. PICK s \in Seq(Chr!Bytes) :
            s = x7[t].text /\ s \in ChrTexts /\ s # <<>> /\ Len(s) \in Nat \ {0}
    BY <1>7, ChrText DEF Chr!IInv, Chr!FilesInv, Chr!FileOK
  <2>2. PICK b \in Seq(Chr!Bytes) : b = x8.bytes
    BY DEF Chr!IInv, Chr!TypeOK, Chr!Logs
  <2>3. PICK w \in Seq(Chr!Bytes) : w = b \o s
    BY ConcatProperties
  <2>4. x8' \in Chr!Logs /\ x8'.bytes = w /\ x8'.latest = s
    <3>1. x8' = [bytes |-> w, latest |-> s]
      BY <1>1, <1>7, <2>1, <2>2, <2>3
    <3> QED
      BY <3>1 DEF Chr!Logs
  <2>5. Chr!Written(x7[t]) = s
    <3>1. Len(s) - Len(<<>>) = Len(s) /\ SubSeq(s, 1, Len(s)) = s
      BY <2>1, SeqWhole
    <3>2. x7[t].rest = <<>> /\ x7[t].text = s
      BY <1>1, <1>7, <2>1
    <3> QED
      BY <3>1, <3>2 DEF Chr!Written
  <2>6. ~Chr!Untouched(x7[t])
    BY <1>1, <1>7, <2>1 DEF Chr!Untouched
  <2>7. w # <<>> /\ w[Len(w)] = s[Len(s)]
    <3>1. /\ Len(w) = Len(b) + Len(s) /\ Len(b) \in Nat
          /\ \A i \in 1 .. Len(b) + Len(s) : w[i] = IF i <= Len(b) THEN b[i] ELSE s[i - Len(b)]
      BY <2>3, ConcatProperties, LenProperties
    <3>2. PICK m \in Nat, n \in Nat \ {0} : m = Len(b) /\ n = Len(s)
      BY <2>1, <3>1
    <3>3. m + n \in 1 .. m + n /\ ~(m + n <= m) /\ (m + n) - m = n
      BY <3>2
    <3>4. w[m + n] = s[n] /\ Len(w) = m + n
      BY <3>1, <3>2, <3>3
    <3>5. w # <<>>
      BY <3>2, <3>4, EmptySeq
    <3> QED
      BY <3>2, <3>4, <3>5
  <2>8. Chr!TypeOK'
    BY <1>1, <1>4, <2>4 DEF Chr!IInv, Chr!TypeOK
  <2>9. Chr!MemoryInv'
    <3>1. (x1 \in {"memory", "minimal"}) => Len(x4) = ChrSize
      BY <1>4 DEF Chr!IInv, Chr!MemoryInv, Chr!IsMemory
    <3>2. (x1 \in {"memory", "minimal"}) /\ ~x9 => Chr!Holds(w)
      BY <1>4, <1>7, <2>2, <2>3, <2>5 DEF Chr!IInv, Chr!MemoryInv, Chr!IsMemory
    <3>3. ~x9 => \A u \in ChrTasks : x7'[u].cmd \in {"none", "gone"}
      BY <1>2, <1>4
    <3> QED
      BY <1>1, <2>4, <3>1, <3>2, <3>3 DEF Chr!MemoryInv, Chr!IsMemory, Chr!Holds
  <2>10. \A u \in ChrTasks : ~x9 => Chr!Untouched(x7'[u])
    BY <1>2, <1>4 DEF Chr!Untouched
  <2>11. Chr!SingleInv'
    <3>1. x1 = "single" /\ ~x9 => x4 = <<Chr!Last(s)>>
      BY <1>4, <2>1, <2>6 DEF Chr!IInv, Chr!SingleInv
    <3>2. Chr!Final(w) = <<Chr!Last(s)>>
      BY <2>7 DEF Chr!Final, Chr!Last
    <3> QED
      BY <1>1, <2>4, <2>10, <3>1, <3>2 DEF Chr!SingleInv
  <2>12. Chr!ProcfsInv'
    <3>1. x1 = "procfs" /\ ~x9 => x4 = Chr!Cut(s)
      BY <1>4, <2>1, <2>6 DEF Chr!IInv, Chr!ProcfsInv
    <3> QED
      BY <1>1, <2>4, <2>10, <3>1 DEF Chr!ProcfsInv
  <2> QED
    BY <1>4, <1>5, <2>8, <2>9, <2>11, <2>12 DEF Chr!IInv
<1> QED
  BY <1>6, <1>7

LEMMA ChrOpenFor ==
  ASSUME Chr!IInv, ~x11, NEW t \in ChrTasks, NEW cmd, NEW s, Chr!OpenFor(t, cmd, s),
         (cmd = "cat" /\ s = <<>>) \/ (cmd = "echo" /\ s \in ChrTexts)
  PROVE  Chr!IInv'
<1>1. /\ x2 /\ x7[t].cmd = "none" /\ UNCHANGED <<x1, x2, x3, x4, x5, x6, x8, x11>>
      /\ x7' = [x7 EXCEPT ![t] = [Chr!Closed EXCEPT !.cmd = cmd, !.text = s, !.rest = s]]
  BY DEF Chr!OpenFor
<1>2. x9' = (x9 \/ \E u \in ChrTasks : Chr!Busy(u))
  BY DEF Chr!OpenFor
<1>3. x9' \in BOOLEAN /\ (x9' <=> (x9 \/ \E u \in ChrTasks : Chr!Busy(u)))
  BY <1>2, Zenon
<1> DEFINE r == [Chr!Closed EXCEPT !.cmd = cmd, !.text = s, !.rest = s]
<1>4. /\ r \in Chr!Files /\ r.cmd = cmd /\ r.text = s /\ r.rest = s /\ r.pos = 0 /\ r.got = <<>>
      /\ s \in Seq(Chr!Bytes)
  BY ChrText DEF Chr!Files, Chr!Closed
<1>5. x7' = [x7 EXCEPT ![t] = r]
  BY <1>1
<1> HIDE DEF r
<1>6. /\ x7 \in [ChrTasks -> Chr!Files] /\ x7' \in [ChrTasks -> Chr!Files] /\ x7'[t] = r
      /\ \A u \in ChrTasks : u # t => x7'[u] = x7[u]
  BY <1>4, <1>5, ChrFile DEF Chr!IInv, Chr!TypeOK
<1>7. Chr!FileOK(r)
  <2>1. CASE cmd = "cat"
    BY <1>1, <1>4, <2>1 DEF Chr!FileOK
  <2>2. CASE s \in ChrTexts
    <3>1. s = SubSeq(s, 0 + 1, Len(s)) /\ 0 \in 0 .. Len(s)
      BY <1>4, SeqWhole, LenProperties
    <3> QED
      BY <1>1, <1>4, <2>2, <3>1 DEF Chr!FileOK
  <2> QED
    BY <2>1, <2>2
<1>8. Chr!FilesInv'
  BY <1>1, <1>6, <1>7, ZenonT(40) DEF Chr!IInv, Chr!FilesInv, Chr!FileOK
<1>9. ~x9' => ~x9 /\ \A u \in ChrTasks : x7[u].cmd \in {"none", "gone"}
  BY <1>3 DEF Chr!Busy
<1>10. Chr!AloneInv'
  BY <1>6, <1>9 DEF Chr!AloneInv, Chr!Busy
<1>11. Chr!ReadersInv'
  BY <1>1, <1>4, <1>6, <1>9 DEF Chr!IInv, Chr!ReadersInv, Chr!ReaderOK
<1>12. Chr!TypeOK' /\ Chr!LoadAllOrNothing' /\ Chr!NullInv' /\ Chr!CrashInv'
  <2>1. UNCHANGED <<x1, x2, x3, x4, x5, x6, x8, x11>>
    BY <1>1
  <2>2. x9' \in BOOLEAN
    BY <1>3
  <2>3. Chr!LoadAllOrNothing' /\ Chr!NullInv' /\ Chr!CrashInv' /\ x11' \in BOOLEAN
    BY <2>1, ChrSame
  <2>4. Chr!TypeOK'
    BY <1>6, <2>1, <2>2, <2>3 DEF Chr!IInv, Chr!TypeOK
  <2> QED
    BY <2>3, <2>4
<1>13. /\ Chr!Untouched(r)
       /\ (~x9' => \A u \in ChrTasks : Chr!Untouched(x7'[u]) /\ Chr!Untouched(x7[u]))
  BY <1>4, <1>6, <1>9 DEF Chr!Untouched
<1>14. Chr!MemoryInv'
  <2>1. (x1 \in {"memory", "minimal"}) => Len(x4) = ChrSize
    BY <1>1 DEF Chr!IInv, Chr!MemoryInv, Chr!IsMemory
  <2>2. (x1 \in {"memory", "minimal"}) /\ ~x9' => Chr!Holds(x8.bytes)
    BY <1>1, <1>9 DEF Chr!IInv, Chr!MemoryInv, Chr!IsMemory
  <2>3. Len(s) - Len(s) = 0
    BY <1>4, LenProperties
  <2>4. Chr!Written(r) = SubSeq(s, 1, 0)
    BY <1>4, <2>3 DEF Chr!Written
  <2>5. x8.bytes \o Chr!Written(r) = x8.bytes
    BY <1>4, <2>4, SeqWhole, ConcatEmptySeq DEF Chr!IInv, Chr!TypeOK, Chr!Logs
  <2>6. ~x9' => \A u \in ChrTasks : x7'[u].cmd = "echo" => x7'[u] = r
    BY <1>6, <1>9
  <2> QED
    BY <1>1, <2>1, <2>2, <2>5, <2>6 DEF Chr!MemoryInv, Chr!IsMemory, Chr!Holds
<1>15. Chr!SingleInv' /\ Chr!ProcfsInv'
  BY <1>1, <1>9, <1>13 DEF Chr!IInv, Chr!SingleInv, Chr!ProcfsInv
<1> QED
  BY <1>8, <1>10, <1>11, <1>12, <1>14, <1>15 DEF Chr!IInv

LEMMA ChrRmmod ==
  ASSUME Chr!IInv, ~x11, Chr!Rmmod
  PROVE  Chr!IInv'
<1>1. /\ UNCHANGED <<x1, x4, x5, x6, x8, x9, x11>> /\ x3' = {}
      /\ x7' = [t \in ChrTasks |-> IF x1 = "procfs" \/ x7[t].cmd = "none" THEN Chr!Closed
                                   ELSE [x7[t] EXCEPT !.cmd = "gone"]]
  BY DEF Chr!Rmmod
<1>2. x2' \in BOOLEAN /\ ~x2'
  BY Zenon DEF Chr!Rmmod
<1>3. x11' \in BOOLEAN /\ ~x11'
  BY <1>1, Zenon DEF Chr!IInv, Chr!TypeOK
<1>4. Chr!Closed \in Chr!Files /\ Chr!Closed.cmd = "none"
  BY ChrText DEF Chr!Closed, Chr!Files
<1>5. ASSUME NEW t \in ChrTasks
      PROVE  /\ x7'[t] \in Chr!Files /\ x7'[t].cmd \in {"none", "gone"}
             /\ x7'[t].cmd = "gone" => x1 # "procfs"
  <2>1. CASE x1 = "procfs" \/ x7[t].cmd = "none"
    <3>1. x7'[t] = Chr!Closed
      BY <1>1, <2>1
    <3> QED
      BY <1>4, <3>1
  <2>2. CASE ~(x1 = "procfs" \/ x7[t].cmd = "none")
    <3>1. PICK f \in Chr!Files : f = x7[t]
      BY DEF Chr!IInv, Chr!TypeOK
    <3>2. x7'[t] = [f EXCEPT !.cmd = "gone"]
      BY <1>1, <2>2, <3>1
    <3>3. [f EXCEPT !.cmd = "gone"] \in Chr!Files /\ [f EXCEPT !.cmd = "gone"].cmd = "gone"
      BY DEF Chr!Files
    <3> QED
      BY <2>2, <3>2, <3>3
  <2> QED
    BY <2>1, <2>2
<1>6. x7' \in [ChrTasks -> Chr!Files]
  <2>1. x7' = [t \in ChrTasks |-> x7'[t]]
    BY <1>1
  <2> QED
    BY <1>5, <2>1
<1>7. Chr!TypeOK' /\ Chr!LoadAllOrNothing' /\ Chr!NullInv' /\ Chr!CrashInv'
  <2>1. Chr!TypeOK'
    BY <1>1, <1>2, <1>3, <1>6 DEF Chr!IInv, Chr!TypeOK
  <2> QED
    BY <1>1, <1>2, <1>3, <2>1 DEF Chr!LoadAllOrNothing, Chr!NullInv, Chr!CrashInv
<1>8. Chr!FilesInv' /\ Chr!AloneInv' /\ Chr!ReadersInv'
  BY <1>1, <1>2, <1>5 DEF Chr!FilesInv, Chr!FileOK, Chr!AloneInv, Chr!Busy, Chr!ReadersInv,
     Chr!ReaderOK
<1>9. Chr!MemoryInv' /\ Chr!SingleInv' /\ Chr!ProcfsInv'
  BY <1>2 DEF Chr!MemoryInv, Chr!SingleInv, Chr!ProcfsInv
<1> QED
  BY <1>7, <1>8, <1>9 DEF Chr!IInv

LEMMA ChrInsmod ==
  ASSUME Chr!IInv, ~x11, Chr!Insmod
  PROVE  Chr!IInv'
<1>1. ~x2 /\ x5' = 0 /\ x8' = Chr!Blank /\ UNCHANGED <<x1, x6, x7, x9>> /\ Chr!Load
  BY DEF Chr!Insmod
<1>2. /\ x2' \in BOOLEAN /\ x11' \in BOOLEAN
      /\ \/ /\ x2' /\ ~x11' /\ x3' \subseteq Chr!Wants /\ x4' \in Chr!Fresh(x3')
            /\ Chr!Wants \ (Chr!Unchecked \cap ChrFailures) \subseteq x3'
         \/ /\ ~x2' /\ x3' = {} /\ x4' = x4
            /\ ~x11' \/ (x1 = "minimal" /\ "buffer" \in ChrFailures)
  <2>1. CASE Chr!LoadWhole
    <3>1. PICK lost \in SUBSET (Chr!Unchecked \cap ChrFailures) :
            x3' = Chr!Wants \ lost /\ x4' \in Chr!Fresh(Chr!Wants \ lost)
      BY <2>1 DEF Chr!LoadWhole
    <3>2. x4' \in Chr!Fresh(x3')
      BY <3>1, Zenon
    <3>3. x2' \in BOOLEAN /\ x2' /\ x11' \in BOOLEAN /\ ~x11'
      <4>1. x2' = TRUE /\ x11' = x11 /\ x11 \in BOOLEAN
        BY <2>1, Zenon DEF Chr!LoadWhole, Chr!IInv, Chr!TypeOK
      <4> QED
        BY <4>1, Zenon
    <3>4. x3' \subseteq Chr!Wants /\ Chr!Wants \ (Chr!Unchecked \cap ChrFailures) \subseteq x3'
      BY <3>1
    <3> QED
      BY <3>2, <3>3, <3>4, Zenon
  <2>2. CASE Chr!LoadCrash
    <3>1. x11' \in BOOLEAN /\ x2' \in BOOLEAN /\ ~x2'
      BY <1>1, <2>2, Zenon DEF Chr!LoadCrash, Chr!IInv, Chr!TypeOK
    <3>2. x3' = {} /\ x4' = x4 /\ x1 = "minimal" /\ "buffer" \in ChrFailures
      BY <1>1, <2>2 DEF Chr!LoadCrash, Chr!IInv, Chr!LoadAllOrNothing
    <3> QED
      BY <3>1, <3>2, Zenon
  <2>3. CASE x3' = {} /\ UNCHANGED <<x2, x4, x11>>
    <3>1. x2' \in BOOLEAN /\ ~x2' /\ x11' \in BOOLEAN /\ ~x11'
      BY <1>1, <2>3, Zenon DEF Chr!IInv, Chr!TypeOK
    <3>2. x3' = {} /\ x4' = x4
      BY <2>3
    <3> QED
      BY <3>1, <3>2, Zenon
  <2> QED
    BY <1>1, <2>1, <2>2, <2>3, Zenon DEF Chr!Load
<1>3. \A t \in ChrTasks : x7[t].cmd \in {"none", "gone"}
  BY <1>1 DEF Chr!IInv, Chr!FilesInv, Chr!FileOK
<1>4. Chr!Blank \in Chr!Logs /\ Chr!Blank.bytes = <<>>
  BY ChrText DEF Chr!Blank, Chr!Logs
<1>5. x2' => /\ x1 \in {"memory", "minimal"} => x4' = [i \in 1 .. ChrSize |-> Chr!NUL]
             /\ x1 = "procfs" => x4' \in ChrTexts \cup {<<>>, <<Chr!Null>>}
             /\ x1 \notin {"procfs", "memory", "minimal"} => x4' = <<Chr!NUL>>
  BY <1>2 DEF Chr!Fresh, Chr!IsMemory, Chr!Zeroes
<1>6. /\ x4' \in Seq(Chr!Bytes)
      /\ x2' /\ x1 \in {"memory", "minimal"} => Len(x4') = ChrSize /\ x4' = Chr!Filled(<<>>)
      /\ x1 = "parlelport" => Len(x4') = 1
  <2>1. CASE ~x2'
    BY <1>2, <2>1 DEF Chr!IInv, Chr!TypeOK
  <2>2. CASE x2' /\ x1 \in {"memory", "minimal"}
    <3>1. /\ x4' = [i \in 1 .. ChrSize |-> Chr!NUL] /\ Chr!NUL \in Chr!Bytes
          /\ ChrSize \in Nat \ {0}
      BY <1>5, <2>2, ChrText
    <3>2. x4' \in Seq(Chr!Bytes) /\ Len(x4') = ChrSize
      BY <3>1
    <3>3. x4' = Chr!Filled(<<>>)
      BY <3>1 DEF Chr!Filled
    <3> QED
      BY <2>2, <3>2, <3>3
  <2>3. CASE x2' /\ x1 = "procfs"
    <3>1. <<Chr!Null>> \in Seq(Chr!Bytes)
      BY DEF Chr!Bytes
    <3> QED
      BY <1>5, <2>3, <3>1, ChrText
  <2>4. CASE x2' /\ x1 \notin {"procfs", "memory", "minimal"}
    <3>1. Chr!NUL \in Chr!Bytes
      BY ChrText
    <3>2. <<Chr!NUL>> \in Seq(Chr!Bytes) /\ Len(<<Chr!NUL>>) = 1
      BY <3>1
    <3> QED
      BY <1>5, <2>4, <3>2
  <2> QED
    BY <2>1, <2>2, <2>3, <2>4
<1>7. Chr!TypeOK'
  BY <1>1, <1>2, <1>4, <1>6 DEF Chr!IInv, Chr!TypeOK
<1>8. Chr!LoadAllOrNothing' /\ Chr!NullInv' /\ Chr!CrashInv'
  <2>1. Chr!Wants' = Chr!Wants /\ Chr!Unchecked' = Chr!Unchecked
    BY <1>1 DEF Chr!Wants, Chr!Unchecked
  <2>2. Chr!LoadAllOrNothing'
    BY <1>2, <2>1 DEF Chr!LoadAllOrNothing
  <2>3. Chr!NullInv'
    BY <1>1, <1>2 DEF Chr!NullInv, Chr!Wants
  <2>4. Chr!CrashInv'
    BY <1>1, <1>2 DEF Chr!CrashInv
  <2> QED
    BY <2>2, <2>3, <2>4
<1>9. Chr!FilesInv' /\ Chr!AloneInv' /\ Chr!ReadersInv'
  BY <1>1, <1>3 DEF Chr!IInv, Chr!FilesInv, Chr!FileOK, Chr!AloneInv, Chr!Busy, Chr!ReadersInv,
     Chr!ReaderOK
<1>10. Chr!MemoryInv'
  <2>1. Len(<<>>) = 0 /\ 0 <= ChrSize
    BY ChrText
  <2> QED
    BY <1>1, <1>3, <1>4, <1>6, <2>1 DEF Chr!MemoryInv, Chr!IsMemory, Chr!Holds
<1>11. \A t \in ChrTasks : Chr!Untouched(x7'[t])
  BY <1>1, <1>3 DEF Chr!Untouched
<1>12. Chr!SingleInv' /\ Chr!ProcfsInv'
  BY <1>1, <1>4, <1>5, <1>11 DEF Chr!SingleInv, Chr!ProcfsInv, Chr!Final
<1> QED
  BY <1>7, <1>8, <1>9, <1>10, <1>12 DEF Chr!IInv

LEMMA ChrInit ==
  ASSUME Chr!Init
  PROVE  Chr!IInv
<1>1. /\ x1 \in Chr!AllDevices /\ x3 = {} /\ x4 = <<Chr!NUL>> /\ x5 = 0 /\ x6 = Chr!NUL
      /\ x7 = [t \in ChrTasks |-> Chr!Closed] /\ x8 = Chr!Blank
  BY DEF Chr!Init
<1>2. x2 \in BOOLEAN /\ ~x2 /\ x9 \in BOOLEAN /\ x11 \in BOOLEAN /\ ~x11
  BY Zenon DEF Chr!Init
<1>3. Chr!Blank \in Chr!Logs /\ Chr!Closed \in Chr!Files /\ Chr!Closed.cmd = "none"
  BY ChrText DEF Chr!Blank, Chr!Logs, Chr!Closed, Chr!Files
<1>4. x4 \in Seq(Chr!Bytes) /\ Len(x4) = 1 /\ x6 \in Chr!Bytes
  BY <1>1, ChrText
<1>5. Chr!TypeOK
  BY <1>1, <1>2, <1>3, <1>4 DEF Chr!TypeOK
<1>6. \A t \in ChrTasks : x7[t].cmd = "none"
  BY <1>1, <1>3
<1> QED
  BY <1>1, <1>2, <1>5, <1>6 DEF Chr!IInv, Chr!LoadAllOrNothing, Chr!FilesInv, Chr!FileOK,
     Chr!AloneInv, Chr!Busy, Chr!CrashInv, Chr!NullInv, Chr!MemoryInv, Chr!SingleInv,
     Chr!ProcfsInv, Chr!ReadersInv, Chr!ReaderOK

LEMMA ChrNext ==
  ASSUME Chr!IInv, Chr!Next
  PROVE  Chr!IInv'
<1>0. ~x11
  BY DEF Chr!Next
<1>1. CASE Chr!Insmod \/ Chr!Rmmod
  BY <1>0, <1>1, ChrInsmod, ChrRmmod
<1>2. CASE \E t \in ChrTasks :
               Chr!OpenFor(t, "cat", <<>>) \/ \E s \in ChrTexts : Chr!OpenFor(t, "echo", s)
  <2>1. PICK t \in ChrTasks :
            Chr!OpenFor(t, "cat", <<>>) \/ \E s \in ChrTexts : Chr!OpenFor(t, "echo", s)
    BY <1>2
  <2>2. CASE Chr!OpenFor(t, "cat", <<>>)
    <3>1. PICK c, s : c = "cat" /\ s = <<>>
      OBVIOUS
    <3>2. Chr!OpenFor(t, c, s)
      BY <2>2, <3>1
    <3> QED
      <4>1. (c = "cat" /\ s = <<>>) \/ (c = "echo" /\ s \in ChrTexts)
        BY <3>1
      <4> QED
        BY <1>0, <3>2, <4>1, ChrOpenFor, Zenon
  <2>3. CASE \E s \in ChrTexts : Chr!OpenFor(t, "echo", s)
    BY <1>0, <2>3, ChrOpenFor
  <2> QED
    BY <2>1, <2>2, <2>3
<1>3. CASE \E t \in ChrTasks : \/ Chr!MemoryWrite(t) \/ Chr!SingleWrite(t)
                               \/ Chr!ParlelportWrite(t) \/ Chr!ProcfsWrite(t)
  BY <1>0, <1>3, ChrMemoryWrite, ChrSingleWrite, ChrParlelportWrite, ChrProcfsWrite
<1>4. CASE \E t \in ChrTasks : \/ Chr!MemoryRead(t) \/ Chr!SingleRead(t) \/ Chr!ParlelportRead(t)
                               \/ Chr!ProcfsRead(t) \/ Chr!Close(t)
  BY <1>0, <1>4, ChrMemoryRead, ChrSingleRead, ChrParlelportRead, ChrProcfsRead, ChrClose
<1>5. CASE \E t \in ChrTasks : Chr!ProcfsWriteCrash(t) \/ Chr!Stale(t)
  BY <1>5, ChrCrash
<1> QED
  BY <1>1, <1>2, <1>3, <1>4, <1>5 DEF Chr!Next

LEMMA ChrServed ==
  ASSUME Chr!IInv
  PROVE  Chr!CatGetsEcho /\ Chr!LoadAllOrNothing /\ Chr!CrashesOnlyIfMisused
<1>1. ASSUME Chr!IsMemory, x2, x5 > ChrSize, ~x9
      PROVE  Chr!Flooded
  <2>1. CASE \A t \in ChrTasks : x7[t].cmd # "echo"
    BY <1>1, <2>1 DEF Chr!IInv, Chr!MemoryInv, Chr!Holds, Chr!Flooded
  <2>2. CASE \E t \in ChrTasks : x7[t].cmd = "echo"
    BY <1>1, <2>2 DEF Chr!IInv, Chr!MemoryInv, Chr!Holds, Chr!Flooded
  <2> QED
    BY <2>1, <2>2
<1>2. Chr!CrashesOnlyIfMisused
  BY <1>1 DEF Chr!IInv, Chr!CrashInv, Chr!CrashesOnlyIfMisused
<1>3. SUFFICES ASSUME NEW t \in ChrTasks, Chr!Reads(t), x7[t].pos # 0, ~x9,
                      x1 = "procfs" => x8 # Chr!Blank
               PROVE  x7[t].got = Chr!Kept
  BY <1>2 DEF Chr!IInv, Chr!CatGetsEcho
<1>4. x7[t].got = x4 /\ x1 # "parlelport" /\ x2 /\ x1 \in Chr!AllDevices
  BY <1>3 DEF Chr!Reads, Chr!IInv, Chr!TypeOK, Chr!ReadersInv, Chr!ReaderOK, Chr!FilesInv,
     Chr!FileOK
<1>5. \A u \in ChrTasks : x7[u].cmd # "echo"
  BY <1>3 DEF Chr!Reads, Chr!IInv, Chr!AloneInv, Chr!Busy
<1>6. \A u \in ChrTasks : Chr!Untouched(x7[u])
  BY <1>5 DEF Chr!Untouched
<1>7. CASE Chr!IsMemory
  BY <1>3, <1>4, <1>5, <1>7 DEF Chr!IInv, Chr!MemoryInv, Chr!Holds, Chr!Kept, Chr!IsMemory
<1>8. CASE x1 = "single"
  BY <1>3, <1>4, <1>6, <1>8 DEF Chr!IInv, Chr!SingleInv, Chr!Kept, Chr!IsMemory
<1>9. CASE x1 = "procfs"
  BY <1>3, <1>4, <1>6, <1>9 DEF Chr!IInv, Chr!ProcfsInv, Chr!Kept, Chr!IsMemory
<1> QED
  BY <1>4, <1>7, <1>8, <1>9 DEF Chr!AllDevices, Chr!IsMemory

(***************************************************************************)
(* The cut-down atl1c (CutTx)                                              *)
(***************************************************************************)

\* How far apart two slots of the ring are.
LEMMA CutDist ==
  ASSUME NEW a \in Cut!Slots, NEW b \in Cut!Slots
  PROVE  /\ CutCount \in Nat /\ CutCount > 0 /\ Cut!Dist(a, a) = 0
         /\ Cut!Dist(a, b) \in Nat /\ Cut!Dist(a, b) < CutCount
  BY CutPartAssumption DEF Cut!CutAssumption, Cut!Slots, Cut!Dist

LEMMA CutSame ==
  ASSUME NEW a \in Cut!Slots, NEW b \in Cut!Slots, NEW c \in Cut!Slots,
         Cut!Dist(a, b) = Cut!Dist(a, c)
  PROVE  b = c
  BY CutPartAssumption DEF Cut!CutAssumption, Cut!Slots, Cut!Dist

LEMMA CutFrom ==
  ASSUME NEW a \in Cut!Slots, NEW b \in Cut!Slots, NEW c \in Cut!Slots
  PROVE  Cut!Dist(b, c) = IF Cut!Dist(a, b) <= Cut!Dist(a, c)
                          THEN Cut!Dist(a, c) - Cut!Dist(a, b)
                          ELSE CutCount + Cut!Dist(a, c) - Cut!Dist(a, b)
  BY CutPartAssumption DEF Cut!CutAssumption, Cut!Slots, Cut!Dist

\* A number less than twice another, divided by it.
LEMMA CutModulo ==
  ASSUME NEW n \in Nat \ {0}, NEW k \in Nat, k < 2 * n
  PROVE  (k < n => k % n = k) /\ (n <= k => k % n = k - n)
<1> DEFINE r == k % n
<1>1. r \in 0 .. n - 1 /\ k = n * (k \div n) + r /\ k \div n \in Nat
  BY SMT
<1>2. k \div n < 2
  BY <1>1, SMT
<1>3. CASE k \div n = 0
  BY <1>1, <1>3, SMT
<1>4. CASE k \div n = 1
  BY <1>1, <1>4, SMT
<1> QED
  BY <1>1, <1>2, <1>3, <1>4, SMT

LEMMA CutAhead ==
  ASSUME NEW a \in Cut!Slots, NEW b \in Cut!Slots, NEW n \in Nat, Cut!Dist(a, b) + n < CutCount
  PROVE  /\ Cut!Ahead(b, n) \in Cut!Slots
         /\ Cut!Dist(a, Cut!Ahead(b, n)) = Cut!Dist(a, b) + n
<1>1. CutCount \in Nat \ {0} /\ a \in 0 .. CutCount - 1 /\ b \in 0 .. CutCount - 1
  BY CutPartAssumption DEF Cut!CutAssumption, Cut!Slots
<1>2. b + n \in Nat /\ b + n < 2 * CutCount
  BY <1>1, CutDist
<1>3. PICK k \in Nat : k = b + n
  BY <1>2
<1>4. PICK c \in Nat \ {0} : c = CutCount
  BY <1>1
<1>5. k < 2 * c
  BY <1>2, <1>3, <1>4
<1>6. (k < c => k % c = k) /\ (c <= k => k % c = k - c)
  BY <1>5, CutModulo
<1>7. Cut!Ahead(b, n) = k % c
  BY <1>3, <1>4, Zenon DEF Cut!Ahead
<1> QED
  BY <1>1, <1>3, <1>4, <1>6, <1>7, CutDist DEF Cut!Slots, Cut!Dist

LEMMA CutAt ==
  ASSUME NEW a \in Cut!Slots, NEW n \in Nat, n < CutCount
  PROVE  \E i \in Cut!Slots : Cut!Dist(a, i) = n
<1>1. Cut!Dist(a, a) = 0
  BY CutDist
<1> QED
  BY <1>1, CutAhead

\* The descriptors of a frame that is mapped as a whole.
LEMMA CutWhole ==
  ASSUME NEW f \in CutFrames
  PROVE  LET whole == Cut!Whole(f)
         IN  /\ whole \in Seq(Cut!Descs) /\ Len(whole) \in Nat /\ Len(whole) >= CutPieces[f]
             /\ Len(whole) >= 1
             /\ \A d \in 1 .. Len(whole) :
                    /\ whole[d] \in Cut!Descs /\ whole[d].of = f
                    /\ whole[d].eop <=> d = Len(whole)
                    /\ whole[d].skb <=> d = Len(whole)
<1> DEFINE n == CutPieces[f]
           first == IF f \in CutGso6 THEN <<Cut!Desc(f, Cut!Ext, FALSE)>> ELSE <<>>
           rest == [p \in 1 .. n |-> Cut!Desc(f, p, p = n)]
<1>1. n \in Nat \ {0}
  BY CutPartAssumption DEF Cut!CutAssumption
<1>3. /\ first \in Seq(Cut!Descs) /\ Len(first) \in 0 .. 1
      /\ \A d \in 1 .. Len(first) : first[d].of = f /\ ~first[d].eop /\ ~first[d].skb
  <2>1. PICK desc : desc = Cut!Desc(f, Cut!Ext, FALSE)
    OBVIOUS
  <2>2. desc \in Cut!Descs /\ desc.of = f /\ ~desc.eop /\ ~desc.skb
    BY <2>1 DEF Cut!Desc, Cut!Descs, Cut!Ext
  <2>3. first = IF f \in CutGso6 THEN <<desc>> ELSE <<>>
    BY <2>1
  <2> HIDE DEF first
  <2>4. CASE f \in CutGso6
    BY <2>2, <2>3, <2>4
  <2>5. CASE f \notin CutGso6
    <3>1. first = <<>>
      BY <2>3, <2>5
    <3> QED
      BY <3>1
  <2> QED
    BY <2>4, <2>5
<1>4. /\ rest \in Seq(Cut!Descs) /\ Len(rest) = n
      /\ \A p \in 1 .. n :
             rest[p].of = f /\ (rest[p].eop <=> p = n) /\ (rest[p].skb <=> p = n)
  <2>1. rest \in [1 .. n -> Cut!Descs]
    <3>1. ASSUME NEW p \in 1 .. n
          PROVE  Cut!Desc(f, p, p = n) \in Cut!Descs
      <4>1. p \in Int
        BY <1>1
      <4> QED
        BY <4>1 DEF Cut!Desc, Cut!Descs
    <3> QED
      BY <3>1
  <2>4. \A p \in 1 .. n :
             rest[p].of = f /\ (rest[p].eop <=> p = n) /\ (rest[p].skb <=> p = n)
    BY DEF Cut!Desc
  <2>2. rest \in Seq(Cut!Descs)
    BY <1>1, <2>1, SeqDef
  <2>3. Len(rest) = n
    BY <1>1, <2>1, <2>2, LenProperties
  <2> QED
    BY <2>2, <2>3, <2>4
<1>5. Cut!Whole(f) = first \o rest
  BY DEF Cut!Whole
<1> HIDE DEF first, rest
<1>7. /\ Cut!Whole(f) \in Seq(Cut!Descs) /\ Len(Cut!Whole(f)) = Len(first) + n
      /\ \A d \in 1 .. Len(first) + n :
             Cut!Whole(f)[d] = IF d <= Len(first) THEN first[d] ELSE rest[d - Len(first)]
  <2>1. PICK all : all = first \o rest
    OBVIOUS
  <2>2. /\ all \in Seq(Cut!Descs) /\ Len(all) = Len(first) + Len(rest)
        /\ \A d \in 1 .. Len(first) + Len(rest) :
               all[d] = IF d <= Len(first) THEN first[d] ELSE rest[d - Len(first)]
    <3>1. rest \in Seq(Cut!Descs) /\ first \in Seq(Cut!Descs)
      BY <1>3, <1>4
    <3>2. /\ first \o rest \in Seq(Cut!Descs) /\ Len(first \o rest) = Len(first) + Len(rest)
          /\ \A i \in 1 .. Len(first) + Len(rest) : (first \o rest)[i] =
                IF i <= Len(first) THEN first[i] ELSE rest[i - Len(first)]
      BY <3>1, ConcatProperties, Zenon
    <3> QED
      BY <2>1, <3>2, Zenon
  <2> QED
    BY <1>4, <1>5, <2>1, <2>2
<1> HIDE DEF n
<1>6. ASSUME NEW d \in 1 .. Len(Cut!Whole(f))
      PROVE  /\ Cut!Whole(f)[d].of = f
             /\ Cut!Whole(f)[d].eop <=> d = Len(Cut!Whole(f))
             /\ Cut!Whole(f)[d].skb <=> d = Len(Cut!Whole(f))
  <2>1. CASE d <= Len(first)
    <3>1. Cut!Whole(f)[d] = first[d] /\ d \in 1 .. Len(first) /\ d # Len(Cut!Whole(f))
      BY <1>1, <1>3, <1>7, <2>1
    <3> QED
      BY <1>3, <3>1
  <2>2. CASE d > Len(first)
    <3>1. /\ d - Len(first) \in 1 .. n /\ (d - Len(first) = n <=> d = Len(Cut!Whole(f)))
          /\ Cut!Whole(f)[d] = rest[d - Len(first)]
      BY <1>1, <1>3, <1>7, <2>2
    <3> QED
      BY <1>4, <3>1
  <2> QED
    BY <1>3, <1>7, <2>1, <2>2
<1>8. \A d \in 1 .. Len(Cut!Whole(f)) : Cut!Whole(f)[d] \in Cut!Descs
  BY <1>7, ElementOfSeq
<1> QED
  BY <1>1, <1>3, <1>6, <1>7, <1>8 DEF n

\* Those of one that is not: none is an end, none has the skb.
LEMMA CutFailed ==
  ASSUME NEW f \in CutFrames, NEW k \in 0 .. CutPieces[f], k # CutPieces[f]
  PROVE  LET some == Cut!TxMap(f, k)
         IN  /\ some \in Seq(Cut!Descs) /\ Len(some) \in 1 .. Len(Cut!Whole(f))
             /\ \A d \in 1 .. Len(some) :
                    some[d] \in Cut!Descs /\ some[d].of = f /\ ~some[d].eop /\ ~some[d].skb
<1> DEFINE whole == Cut!Whole(f)
           m == Len(whole) - CutPieces[f] + k
           last == Cut!Desc(f, Cut!Unmapped, FALSE)
<1>1. CutPieces[f] \in Nat \ {0}
  BY CutPartAssumption DEF Cut!CutAssumption
<1>2. /\ whole \in Seq(Cut!Descs) /\ Len(whole) \in Nat /\ Len(whole) >= CutPieces[f]
      /\ \A d \in 1 .. Len(whole) :
             /\ whole[d] \in Cut!Descs /\ whole[d].of = f
             /\ whole[d].eop <=> d = Len(whole)
             /\ whole[d].skb <=> d = Len(whole)
  BY CutWhole
<1>3. m \in 0 .. Len(whole) - 1
  BY <1>1, <1>2
<1>4. last \in Cut!Descs /\ last.of = f /\ ~last.eop /\ ~last.skb
  BY DEF Cut!Desc, Cut!Descs, Cut!Unmapped
<1>5. Cut!TxMap(f, k) = SubSeq(whole, 1, m) \o <<last>>
  BY DEF Cut!TxMap
<1> HIDE DEF whole, last, m
<1>6. /\ SubSeq(whole, 1, m) \in Seq(Cut!Descs) /\ Len(SubSeq(whole, 1, m)) = m
      /\ \A d \in 1 .. m : SubSeq(whole, 1, m)[d] = whole[d]
  BY <1>2, <1>3
<1>7. /\ Cut!TxMap(f, k) \in Seq(Cut!Descs) /\ Len(Cut!TxMap(f, k)) = m + 1
      /\ \A d \in 1 .. m : Cut!TxMap(f, k)[d] = whole[d]
      /\ Cut!TxMap(f, k)[m + 1] = last
  <2>1. PICK front \in Seq(Cut!Descs) :
          /\ front = SubSeq(whole, 1, m) /\ Len(front) = m
          /\ \A d \in 1 .. m : front[d] = whole[d]
    BY <1>6, Zenon
  <2>2. last \in Cut!Descs
    BY <1>4
  <2>3. /\ front \o <<last>> \in Seq(Cut!Descs)
        /\ Len(front \o <<last>>) = Len(front) + 1
        /\ \A d \in 1 .. Len(front) : (front \o <<last>>)[d] = front[d]
        /\ (front \o <<last>>)[Len(front) + 1] = last
    BY <2>2, SMT
  <2>4. Cut!TxMap(f, k) = front \o <<last>>
    BY <1>5, <2>1, Zenon
  <2> QED
    BY <2>1, <2>3, <2>4, Zenon
<1> QED
  BY <1>2, <1>3, <1>4, <1>7 DEF whole

\* The room atl1c_tpd_avail reports, and what atl1c_get_tpd takes of it.
LEMMA CutAvail ==
  ASSUME Cut!TypeOK
  PROVE  Cut!Avail = CutCount - 1 - Cut!Dist(x2, x1)
  BY CutPartAssumption DEF Cut!CutAssumption, Cut!TypeOK, Cut!Avail, Cut!Dist, Cut!Slots

LEMMA CutPut ==
  ASSUME Cut!TypeOK, NEW descs \in Seq(Cut!Descs), Cut!Avail >= Len(descs), Cut!Put(descs)
  PROVE  /\ x1' \in Cut!Slots /\ x3' \in [Cut!Slots -> Cut!Descs]
         /\ Cut!Dist(x2, x1') = Cut!Dist(x2, x1) + Len(descs)
         /\ \A i \in Cut!Slots :
                LET d == Cut!Dist(x2, i) - Cut!Dist(x2, x1) + 1
                IN  x3'[i] = IF d \in 1 .. Len(descs) THEN descs[d] ELSE x3[i]
<1>1. /\ x1 \in Cut!Slots /\ x2 \in Cut!Slots /\ Len(descs) \in Nat
      /\ DOMAIN descs = 1 .. Len(descs) /\ x3 \in [Cut!Slots -> Cut!Descs]
  BY DEF Cut!TypeOK
<1>2. Cut!Dist(x2, x1) \in Nat /\ Cut!Dist(x2, x1) + Len(descs) < CutCount
  BY <1>1, CutDist, CutAvail
<1>3. x1' \in Cut!Slots /\ Cut!Dist(x2, x1') = Cut!Dist(x2, x1) + Len(descs)
  BY <1>1, <1>2, CutAhead DEF Cut!Put
<1>4. ASSUME NEW i \in Cut!Slots
      PROVE  LET d == Cut!Dist(x2, i) - Cut!Dist(x2, x1) + 1
             IN  /\ x3'[i] = IF d \in 1 .. Len(descs) THEN descs[d] ELSE x3[i]
                 /\ x3'[i] \in Cut!Descs
  <2> DEFINE e == Cut!Dist(x1, i) + 1
             d == Cut!Dist(x2, i) - Cut!Dist(x2, x1) + 1
  <2>1. x3'[i] = IF e \in 1 .. Len(descs) THEN descs[e] ELSE x3[i]
    BY <1>1 DEF Cut!Put
  <2>2. /\ e = IF Cut!Dist(x2, x1) <= Cut!Dist(x2, i) THEN d ELSE CutCount + d
        /\ Cut!Dist(x2, i) \in Nat /\ CutCount \in Nat
    <3>1. Cut!Dist(x1, i) = IF Cut!Dist(x2, x1) <= Cut!Dist(x2, i)
                            THEN Cut!Dist(x2, i) - Cut!Dist(x2, x1)
                            ELSE CutCount + Cut!Dist(x2, i) - Cut!Dist(x2, x1)
      BY <1>1, CutFrom
    <3>2. Cut!Dist(x2, i) \in Nat /\ CutCount \in Nat
      BY <1>1, CutDist
    <3> QED
      BY <1>2, <3>1, <3>2
  <2>3. e \in 1 .. Len(descs) <=> d \in 1 .. Len(descs)
    BY <1>1, <1>2, <2>2
  <2>4. e \in 1 .. Len(descs) => e = d
    BY <1>1, <1>2, <2>2
  <2>5. x3'[i] = IF d \in 1 .. Len(descs) THEN descs[d] ELSE x3[i]
    BY <2>1, <2>3, <2>4
  <2>6. x3'[i] \in Cut!Descs
    BY <1>1, <2>1
  <2> QED
    BY <2>5, <2>6
<1>5. x3' = [i \in Cut!Slots |-> x3'[i]]
  BY DEF Cut!Put
<1> QED
  BY <1>3, <1>4, <1>5

\* The places of the ring, as numbers, and how many descriptors a frame takes.
LEMMA CutNumbers ==
  ASSUME Cut!TypeOK, Cut!OrderInv
  PROVE  /\ x1 \in Cut!Slots /\ x2 \in Cut!Slots /\ x4 \in Cut!Slots /\ x5 \in Cut!Slots
         /\ CutCount \in Nat /\ Cut!Dist(x2, x5) \in Nat /\ Cut!Dist(x2, x4) \in Nat
         /\ Cut!Dist(x2, x1) \in Nat
         /\ Cut!Dist(x2, x5) <= Cut!Dist(x2, x4) /\ Cut!Dist(x2, x4) <= Cut!Dist(x2, x1)
         /\ Cut!Dist(x2, x1) < CutCount
         /\ \A i \in Cut!Slots :
                Cut!Dist(x2, i) \in Nat /\ Cut!Dist(x2, i) < CutCount
                /\ Cut!Pos(i) = Cut!Dist(x2, i) - Cut!Dist(x2, x5)
         /\ Len(x11) \in Nat
         /\ \A f \in CutFrames : Len(Cut!Whole(f)) \in Nat /\ Len(Cut!Whole(f)) >= 1
<1>1. x1 \in Cut!Slots /\ x2 \in Cut!Slots /\ x4 \in Cut!Slots /\ x5 \in Cut!Slots
  BY DEF Cut!TypeOK
<1>2. /\ CutCount \in Nat
      /\ \A i \in Cut!Slots : Cut!Dist(x2, i) \in Nat /\ Cut!Dist(x2, i) < CutCount
  BY <1>1, CutDist
<1>3. \A i \in Cut!Slots : Cut!Pos(i) = Cut!Dist(x2, i) - Cut!Dist(x2, x5)
  BY DEF Cut!Pos
<1>4. Cut!Dist(x2, x5) <= Cut!Dist(x2, x4) /\ Cut!Dist(x2, x4) <= Cut!Dist(x2, x1)
  BY DEF Cut!OrderInv
<1>5. Len(x11) \in Nat
  BY DEF Cut!TypeOK, Cut!Packets
<1>6. \A f \in CutFrames : Len(Cut!Whole(f)) \in Nat /\ Len(Cut!Whole(f)) >= 1
  BY CutWhole
<1> QED
  BY <1>1, <1>2, <1>3, <1>4, <1>5, <1>6

\* A frame that covers a place is one of the frames, and a whole one.
LEMMA CutCovers ==
  ASSUME Cut!IInv, NEW e \in Cut!Slots, NEW p \in Int, Cut!Covers(e, p)
  PROVE  LET whole == Cut!Whole(x3[e].of)
             d == p - Cut!Pos(e) + Len(whole)
         IN  /\ x3[e].skb /\ x3[e].of \in CutFrames /\ Cut!Unread(e) /\ Cut!Intact(e)
             /\ p <= Cut!Pos(e) /\ d \in 1 .. Len(whole)
             /\ d = Len(whole) <=> p = Cut!Pos(e)
             /\ whole[d].eop <=> p = Cut!Pos(e)
             /\ \A i \in Cut!Slots : p >= 0 /\ Cut!Pos(i) = p => x3[i] = whole[d]
<1> DEFINE whole == Cut!Whole(x3[e].of)
           d == p - Cut!Pos(e) + Len(whole)
<1>1. x3[e].skb /\ Cut!Unread(e) /\ p <= Cut!Pos(e) /\ Cut!Pos(e) < p + Len(whole)
  BY DEF Cut!Covers
<1>2. x3[e].of \in CutFrames /\ Cut!Intact(e)
  BY <1>1 DEF Cut!IInv, Cut!SkbInv, Cut!WholeInv
<1>3. Cut!Pos(e) \in Int /\ Len(whole) \in Nat
  BY <1>2, CutNumbers DEF Cut!IInv
<1>4. d \in 1 .. Len(whole) /\ (d = Len(whole) <=> p = Cut!Pos(e))
      /\ Cut!Pos(e) - Len(whole) + d = p
  BY <1>1, <1>3
<1>5. whole[d].eop <=> d = Len(whole)
  <2>1. \A k \in 1 .. Len(whole) : whole[k].eop <=> k = Len(whole)
    BY <1>2, CutWhole
  <2> QED
    BY <1>4, <2>1
<1>6. \A i \in Cut!Slots : p >= 0 /\ Cut!Pos(i) = p => x3[i] = whole[d]
  BY <1>2, <1>4 DEF Cut!Intact
<1> QED
  BY <1>1, <1>2, <1>4, <1>5, <1>6

\* The last packet stays what it was: a frame that is lost is lost for good.
LEMMA CutPacket ==
  ASSUME Cut!TypeOK, Cut!FrameEndsPacket, x12' = x12,
         \A f \in CutFrames : x10[f] = "lost" => x10'[f] = "lost"
  PROVE  Cut!FrameEndsPacket'
<1>1. \A d \in 1 .. Len(x12) : x12[d][1] \in CutFrames \cup {"none"}
  BY ElementOfSeq DEF Cut!TypeOK, Cut!Packets
<1>2. CASE x12 = <<>>
  BY <1>2 DEF Cut!FrameEndsPacket
<1>3. CASE x12 # <<>>
  <2>1. PICK f \in CutFrames :
          LET whole == Cut!Whole(f)
              junk == Len(x12) - Len(whole)
          IN  /\ junk >= 0
              /\ \A d \in DOMAIN whole : x12[junk + d] = <<f, whole[d].part>>
              /\ \A d \in 1 .. junk : x12[d][1] = "none" \/ x10[x12[d][1]] = "lost"
    BY <1>3 DEF Cut!FrameEndsPacket
  <2>2. 1 .. Len(x12) - Len(Cut!Whole(f)) \subseteq 1 .. Len(x12)
    BY CutWhole DEF Cut!TypeOK, Cut!Packets
  <2>3. \A d \in 1 .. Len(x12) - Len(Cut!Whole(f)) :
           x12[d][1] = "none" \/ x10'[x12[d][1]] = "lost"
    BY <1>1, <2>1, <2>2, Zenon
  <2> QED
    BY <2>1, <2>3, Zenon DEF Cut!FrameEndsPacket
<1> QED
  BY <1>2, <1>3

\* What the handlers that only add to the ring leave as it is.
LEMMA CutGrow ==
  ASSUME Cut!IInv, x2' = x2, x5' = x5, x11' = x11, x12' = x12, x1' \in Cut!Slots,
         Cut!Dist(x2, x1) <= Cut!Dist(x2, x1'),
         \A i \in Cut!Slots : Cut!Dist(x2, i) < Cut!Dist(x2, x1) => x3'[i] = x3[i],
         \A f \in CutFrames : x10[f] = "lost" => x10'[f] = "lost"
  PROVE  /\ \A i \in Cut!Slots : Cut!Pos(i)' = Cut!Pos(i)
         /\ \A i \in Cut!Slots : Cut!Unread(i) => Cut!Unread(i)' /\ x3'[i] = x3[i]
         /\ \A f, p : Cut!Served(f, p) => Cut!Served(f, p)'
         /\ \A i \in Cut!Slots : Cut!Unread(i) =>
               (~x3[i].eop /\ Cut!Junk(x3[i].of))' \/ Cut!Served(x3[i].of, Cut!Pos(i))'
         /\ \A e \in Cut!Slots : x3[e].skb /\ Cut!Unread(e) => Cut!Intact(e)'
         /\ Cut!GatheredInv' /\ Cut!FrameEndsPacket'
<1> USE CutNumbers DEF Cut!IInv
<1>1. \A i \in Cut!Slots : Cut!Pos(i)' = Cut!Pos(i)
  BY DEF Cut!Pos
<1>2. Cut!Dist(x2, x1') \in Nat
  BY CutDist
<1>3. \A i \in Cut!Slots : Cut!Unread(i) => Cut!Unread(i)' /\ x3'[i] = x3[i]
  BY <1>1, <1>2 DEF Cut!Unread
<1>4. \A f, p : Cut!Served(f, p) => Cut!Served(f, p)'
  BY <1>1, <1>3, Zenon DEF Cut!Served, Cut!Covers
<1>5. \A f : f \in CutFrames \cup {"none"} /\ Cut!Junk(f) => Cut!Junk(f)'
  BY Zenon DEF Cut!Junk
<1>6. \A i \in Cut!Slots : x3[i].of \in CutFrames \cup {"none"}
  BY DEF Cut!TypeOK, Cut!Descs
<1>7. ASSUME NEW i \in Cut!Slots, Cut!Unread(i)
      PROVE  (~x3[i].eop /\ Cut!Junk(x3[i].of))' \/ Cut!Served(x3[i].of, Cut!Pos(i))'
  <2>1. (~x3[i].eop /\ Cut!Junk(x3[i].of)) \/ Cut!Served(x3[i].of, Cut!Pos(i))
    BY <1>7 DEF Cut!UnreadInv
  <2>2. x3'[i] = x3[i] /\ Cut!Pos(i)' = Cut!Pos(i)
    BY <1>1, <1>3, <1>7
  <2>3. Cut!Served(x3[i].of, Cut!Pos(i)) => Cut!Served(x3[i].of, Cut!Pos(i))'
    BY <1>4, <2>2, Zenon
  <2>4. Cut!Junk(x3[i].of) => Cut!Junk(x3[i].of)'
    BY <1>5, <1>6, <2>2, Zenon
  <2> QED
    BY <2>1, <2>2, <2>3, <2>4, Zenon
<1>8. ASSUME NEW e \in Cut!Slots, x3[e].skb, Cut!Unread(e)
      PROVE  Cut!Intact(e)'
  <2>1. Cut!Intact(e) /\ x3'[e] = x3[e] /\ Cut!Pos(e)' = Cut!Pos(e) /\ x3[e].of \in CutFrames
    BY <1>1, <1>3, <1>8 DEF Cut!WholeInv, Cut!SkbInv
  <2>2. ASSUME NEW d \in 1 .. Len(Cut!Whole(x3[e].of)), NEW i \in Cut!Slots,
               Cut!Pos(i) = Cut!Pos(e) - Len(Cut!Whole(x3[e].of)) + d
        PROVE  x3'[i] = x3[i]
    <3>1. Len(Cut!Whole(x3[e].of)) \in Nat
      BY <2>1
    <3>2. /\ Cut!Pos(i) <= Cut!Pos(e) /\ Cut!Pos(e) = Cut!Dist(x2, e) - Cut!Dist(x2, x5)
          /\ Cut!Pos(i) = Cut!Dist(x2, i) - Cut!Dist(x2, x5)
          /\ Cut!Dist(x2, e) < Cut!Dist(x2, x1) /\ Cut!Dist(x2, e) \in Nat
          /\ Cut!Dist(x2, i) \in Nat /\ Cut!Dist(x2, x5) \in Nat /\ Cut!Dist(x2, x1) \in Nat
      BY <1>8, <2>2, <3>1, SMTT(30) DEF Cut!Unread
    <3>3. Cut!Dist(x2, i) < Cut!Dist(x2, x1)
      BY <3>2
    <3> QED
      BY <3>3, SMTT(30)
  <2>3. PICK whole : whole = Cut!Whole(x3[e].of)
    OBVIOUS
  <2>4. PICK f : f = x3[e].of
    OBVIOUS
  <2>5. whole = Cut!Whole(x3'[e].of) /\ f = x3'[e].of
    BY <2>1, <2>3, <2>4
  <2>6. \A d \in 1 .. Len(whole) :
             LET p == Cut!Pos(e) - Len(whole) + d
             IN  /\ p >= 0 => \A i \in Cut!Slots : Cut!Pos(i) = p => x3[i] = whole[d]
                 /\ p < 0 => /\ Len(x11) + p >= 0
                             /\ x11[Len(x11) + 1 + p] = <<f, whole[d].part>>
    BY <2>1, <2>3, <2>4, Zenon DEF Cut!Intact
  <2>7. \A d \in 1 .. Len(whole) :
             LET p == Cut!Pos(e)' - Len(whole) + d
             IN  /\ p >= 0 => \A i \in Cut!Slots : Cut!Pos(i)' = p => x3'[i] = whole[d]
                 /\ p < 0 => /\ Len(x11') + p >= 0
                             /\ x11'[Len(x11') + 1 + p] = <<f, whole[d].part>>
    <3> SUFFICES ASSUME NEW d \in 1 .. Len(whole)
                 PROVE  LET p == Cut!Pos(e) - Len(whole) + d
                        IN  /\ p >= 0 => \A i \in Cut!Slots : Cut!Pos(i)' = p => x3'[i] = whole[d]
                            /\ p < 0 => /\ Len(x11) + p >= 0
                                        /\ x11[Len(x11) + 1 + p] = <<f, whole[d].part>>
      BY <2>1
    <3>1. PICK p : p = Cut!Pos(e) - Len(whole) + d
      OBVIOUS
    <3>2. /\ p >= 0 => \A i \in Cut!Slots : Cut!Pos(i) = p => x3[i] = whole[d]
          /\ p < 0 => /\ Len(x11) + p >= 0
                      /\ x11[Len(x11) + 1 + p] = <<f, whole[d].part>>
      BY <2>6, <3>1, Zenon
    <3>3. \A i \in Cut!Slots : Cut!Pos(i)' = p => x3'[i] = x3[i] /\ Cut!Pos(i) = p
      BY <1>1, <2>2, <2>3, <3>1, Zenon
    <3> QED
      BY <3>1, <3>2, <3>3, Zenon
  <2> QED
    BY <2>5, <2>7, Zenon DEF Cut!Intact
<1>9. Cut!GatheredInv'
  <2>1. \A d \in 1 .. Len(x11) : x11[d][1] \in CutFrames \cup {"none"}
    BY ElementOfSeq, SMTT(30) DEF Cut!TypeOK, Cut!Packets
  <2> QED
    BY <1>4, <1>5, <2>1, Zenon DEF Cut!GatheredInv
<1>10. Cut!FrameEndsPacket'
  BY CutPacket
<1> QED
  BY <1>1, <1>3, <1>4, <1>7, <1>8, <1>9, <1>10

\* What changes none of the ring, the frames and the stream.
LEMMA CutIdle ==
  ASSUME Cut!IInv, UNCHANGED <<x1, x2, x3, x4, x5, x10, x11, x12>>
  PROVE  Cut!IInv'
<1>1. Cut!TypeOK' /\ Cut!OrderInv' /\ Cut!SkbInv' /\ Cut!FrameEndsPacket'
  BY DEF Cut!IInv, Cut!TypeOK, Cut!OrderInv, Cut!SkbInv, Cut!FrameEndsPacket
<1>2. Cut!Dist(x2, x1) <= Cut!Dist(x2, x1') /\ x1' \in Cut!Slots
  BY CutNumbers DEF Cut!IInv
<1>3. /\ \A i \in Cut!Slots : Cut!Unread(i) =>
            (~x3[i].eop /\ Cut!Junk(x3[i].of))' \/ Cut!Served(x3[i].of, Cut!Pos(i))'
      /\ \A e \in Cut!Slots : x3[e].skb /\ Cut!Unread(e) => Cut!Intact(e)'
      /\ Cut!GatheredInv'
  BY <1>2, CutGrow
<1>4. \A i \in Cut!Slots : Cut!Unread(i)' => Cut!Unread(i)
  BY Zenon DEF Cut!Unread, Cut!Pos
<1>5. Cut!UnreadInv' /\ Cut!WholeInv'
  BY <1>3, <1>4, Zenon DEF Cut!UnreadInv, Cut!WholeInv
<1> QED
  BY <1>1, <1>3, <1>5 DEF Cut!IInv

\* atl1c_xmit_frame while the driver is down
LEMMA CutXmitDown ==
  ASSUME Cut!IInv, NEW f \in CutFrames, Cut!XmitDown(f)
  PROVE  Cut!IInv'
<1> USE DEF Cut!XmitDown
<1>1. Cut!TypeOK' /\ Cut!OrderInv'
  BY DEF Cut!IInv, Cut!TypeOK, Cut!OrderInv
<1>2. Cut!SkbInv'
  BY DEF Cut!IInv, Cut!SkbInv, Cut!TypeOK
<1>3. \A g \in CutFrames : x10[g] = "lost" => x10'[g] = "lost"
  BY DEF Cut!IInv, Cut!TypeOK
<1>4. Cut!Dist(x2, x1) <= Cut!Dist(x2, x1') /\ x1' \in Cut!Slots
  BY CutNumbers DEF Cut!IInv
<1>5. /\ \A i \in Cut!Slots : Cut!Pos(i)' = Cut!Pos(i)
      /\ \A i \in Cut!Slots : Cut!Unread(i) =>
            (~x3[i].eop /\ Cut!Junk(x3[i].of))' \/ Cut!Served(x3[i].of, Cut!Pos(i))'
      /\ \A e \in Cut!Slots : x3[e].skb /\ Cut!Unread(e) => Cut!Intact(e)'
      /\ Cut!GatheredInv' /\ Cut!FrameEndsPacket'
  BY <1>3, <1>4, CutGrow
<1>6. \A i \in Cut!Slots : Cut!Unread(i)' => Cut!Unread(i)
  BY Zenon DEF Cut!Unread, Cut!Pos
<1>7. Cut!UnreadInv' /\ Cut!WholeInv'
  BY <1>5, <1>6, Zenon DEF Cut!UnreadInv, Cut!WholeInv
<1> QED
  BY <1>1, <1>2, <1>5, <1>7 DEF Cut!IInv

\* What a handler puts in the ring: how the places change.
LEMMA CutAdd ==
  ASSUME Cut!IInv, NEW descs \in Seq(Cut!Descs), Cut!Avail >= Len(descs), Cut!Put(descs),
         UNCHANGED <<x2, x5, x11, x12>>,
         \A g \in CutFrames : x10[g] = "lost" => x10'[g] = "lost"
  PROVE  /\ x1' \in Cut!Slots /\ x3' \in [Cut!Slots -> Cut!Descs]
         /\ Cut!Dist(x2, x1) <= Cut!Dist(x2, x1')
         /\ \A i \in Cut!Slots :
                Cut!Pos(i)' = Cut!Pos(i) /\ (Cut!Dist(x2, i) < Cut!Dist(x2, x1) => x3'[i] = x3[i])
         /\ \A i \in Cut!Slots : Cut!Unread(i)' =>
               Cut!Unread(i) \/ Cut!Dist(x2, i) - Cut!Dist(x2, x1) + 1 \in 1 .. Len(descs)
         /\ \A i \in Cut!Slots : Cut!Unread(i) =>
               (~x3[i].eop /\ Cut!Junk(x3[i].of))' \/ Cut!Served(x3[i].of, Cut!Pos(i))'
         /\ \A e \in Cut!Slots : x3[e].skb /\ Cut!Unread(e) => Cut!Intact(e)'
         /\ Cut!GatheredInv' /\ Cut!FrameEndsPacket'
<1>1. /\ x1' \in Cut!Slots /\ x3' \in [Cut!Slots -> Cut!Descs]
      /\ Cut!Dist(x2, x1') = Cut!Dist(x2, x1) + Len(descs) /\ Len(descs) \in Nat
      /\ \A i \in Cut!Slots :
             LET d == Cut!Dist(x2, i) - Cut!Dist(x2, x1) + 1
             IN  x3'[i] = IF d \in 1 .. Len(descs) THEN descs[d] ELSE x3[i]
  BY CutPut DEF Cut!IInv
<1>2. /\ Cut!Dist(x2, x1) <= Cut!Dist(x2, x1') /\ Cut!Dist(x2, x1) \in Nat
      /\ \A i \in Cut!Slots : Cut!Dist(x2, i) \in Nat
  BY <1>1, CutNumbers DEF Cut!IInv
<1>3. \A i \in Cut!Slots : Cut!Dist(x2, i) < Cut!Dist(x2, x1) => x3'[i] = x3[i]
  BY <1>1, <1>2
<1>4. /\ \A i \in Cut!Slots : Cut!Pos(i)' = Cut!Pos(i)
      /\ \A i \in Cut!Slots : Cut!Unread(i) =>
            (~x3[i].eop /\ Cut!Junk(x3[i].of))' \/ Cut!Served(x3[i].of, Cut!Pos(i))'
      /\ \A e \in Cut!Slots : x3[e].skb /\ Cut!Unread(e) => Cut!Intact(e)'
      /\ Cut!GatheredInv' /\ Cut!FrameEndsPacket'
  BY <1>1, <1>2, <1>3, CutGrow
<1>5. \A i \in Cut!Slots : Cut!Unread(i)' =>
         Cut!Unread(i) \/ Cut!Dist(x2, i) - Cut!Dist(x2, x1) + 1 \in 1 .. Len(descs)
  BY <1>1, <1>2, <1>4 DEF Cut!Unread
<1> QED
  BY <1>1, <1>2, <1>3, <1>4, <1>5

\* A frame whose mapping fails: what it leaves in the ring ends no packet.
LEMMA CutLeave ==
  ASSUME Cut!IInv, NEW f \in CutFrames, NEW descs \in Seq(Cut!Descs),
         Cut!Avail >= Len(descs), Cut!Put(descs), UNCHANGED <<x2, x5, x11, x12>>,
         x4' = x4 \/ x4' = x1', x10[f] = "stack",
         NEW o \in {"freed", "lost"}, x10' = [x10 EXCEPT ![f] = o],
         \A d \in 1 .. Len(descs) : ~descs[d].eop /\ ~descs[d].skb,
         \A d \in 1 .. Len(descs) : descs[d].of = "none" \/ (descs[d].of = f /\ o = "lost")
  PROVE  Cut!IInv'
<1>0. /\ x10 \in [CutFrames -> {"stack", "driver", "freed", "lost"}]
      /\ x10' \in [CutFrames -> {"stack", "driver", "freed", "lost"}] /\ x10'[f] = o
      /\ \A g \in CutFrames \ {f} : x10'[g] = x10[g]
  BY DEF Cut!IInv, Cut!TypeOK
<1>1. \A g \in CutFrames : x10[g] = "lost" => x10'[g] = "lost"
  BY <1>0
<1>2. /\ x1' \in Cut!Slots /\ x3' \in [Cut!Slots -> Cut!Descs]
      /\ Cut!Dist(x2, x1) <= Cut!Dist(x2, x1')
      /\ \A i \in Cut!Slots :
             Cut!Pos(i)' = Cut!Pos(i) /\ (Cut!Dist(x2, i) < Cut!Dist(x2, x1) => x3'[i] = x3[i])
      /\ \A i \in Cut!Slots : Cut!Unread(i)' =>
            Cut!Unread(i) \/ Cut!Dist(x2, i) - Cut!Dist(x2, x1) + 1 \in 1 .. Len(descs)
      /\ \A i \in Cut!Slots : Cut!Unread(i) =>
            (~x3[i].eop /\ Cut!Junk(x3[i].of))' \/ Cut!Served(x3[i].of, Cut!Pos(i))'
      /\ \A e \in Cut!Slots : x3[e].skb /\ Cut!Unread(e) => Cut!Intact(e)'
      /\ Cut!GatheredInv' /\ Cut!FrameEndsPacket'
  BY <1>1, CutAdd
<1>3. \A i \in Cut!Slots :
         LET d == Cut!Dist(x2, i) - Cut!Dist(x2, x1) + 1
         IN  x3'[i] = IF d \in 1 .. Len(descs) THEN descs[d] ELSE x3[i]
  BY CutPut DEF Cut!IInv
<1>4. ASSUME NEW i \in Cut!Slots, Cut!Dist(x2, i) - Cut!Dist(x2, x1) + 1 \in 1 .. Len(descs)
      PROVE  /\ ~x3'[i].eop /\ ~x3'[i].skb
             /\ x3'[i].of = "none" \/ x10'[x3'[i].of] = "lost"
  BY <1>0, <1>3, <1>4
<1>5. \A i \in Cut!Slots : x3'[i].skb => x3[i].skb /\ x3'[i] = x3[i]
  BY <1>3, <1>4
<1>6. Cut!TypeOK'
  BY <1>0, <1>2 DEF Cut!IInv, Cut!TypeOK
<1>7. Cut!OrderInv'
  <2>1. /\ Cut!Dist(x2, x5) \in Nat /\ Cut!Dist(x2, x4) \in Nat /\ Cut!Dist(x2, x1) \in Nat
        /\ Cut!Dist(x2, x5) <= Cut!Dist(x2, x4) /\ Cut!Dist(x2, x4) <= Cut!Dist(x2, x1)
    BY CutNumbers DEF Cut!IInv
  <2>2. Cut!Dist(x2, x1') \in Nat
    BY <1>2, CutNumbers, CutDist DEF Cut!IInv
  <2>3. Cut!Dist(x2, x5) <= Cut!Dist(x2, x4') /\ Cut!Dist(x2, x4') <= Cut!Dist(x2, x1')
    BY <1>2, <2>1, <2>2
  <2> QED
    BY <2>3 DEF Cut!OrderInv
<1>8. Cut!SkbInv'
  <2>1. /\ \A i \in Cut!Slots : x3[i].skb =>
               x3[i].of \in CutFrames /\ x10[x3[i].of] = "driver"
               /\ Cut!Dist(x2, i) < Cut!Dist(x2, x1)
        /\ \A i, j \in Cut!Slots : x3[i].skb /\ x3[j].skb /\ x3[i].of = x3[j].of => i = j
        /\ \A g \in CutFrames : x10[g] = "driver" =>
               \E i \in Cut!Slots : x3[i].skb /\ x3[i].of = g
    BY DEF Cut!IInv, Cut!SkbInv
  <2>2. /\ Cut!Dist(x2, x1) \in Nat /\ Cut!Dist(x2, x1') \in Nat
        /\ \A i \in Cut!Slots : Cut!Dist(x2, i) \in Nat
    BY <1>2, CutNumbers, CutDist DEF Cut!IInv
  <2>3. \A i \in Cut!Slots : x3'[i].skb =>
            x3'[i].of \in CutFrames /\ x10'[x3'[i].of] = "driver"
            /\ Cut!Dist(x2, i) < Cut!Dist(x2, x1')
    BY <1>0, <1>2, <1>5, <2>1, <2>2
  <2>4. \A i, j \in Cut!Slots : x3'[i].skb /\ x3'[j].skb /\ x3'[i].of = x3'[j].of => i = j
    BY <1>5, <2>1
  <2>5. \A g \in CutFrames : x10'[g] = "driver" =>
            \E i \in Cut!Slots : x3'[i].skb /\ x3'[i].of = g
    BY <1>0, <1>2, <2>1
  <2> QED
    BY <2>3, <2>4, <2>5 DEF Cut!SkbInv
<1>9. Cut!UnreadInv'
  <2>1. \A i \in Cut!Slots : Cut!Dist(x2, i) - Cut!Dist(x2, x1) + 1 \in 1 .. Len(descs) =>
            (~x3[i].eop /\ Cut!Junk(x3[i].of))'
    BY <1>4 DEF Cut!Junk
  <2> QED
    BY <1>2, <2>1, Zenon DEF Cut!UnreadInv
<1>10. Cut!WholeInv'
  <2>1. \A i \in Cut!Slots :
            Cut!Dist(x2, i) - Cut!Dist(x2, x1) + 1 \in 1 .. Len(descs) => ~x3'[i].skb
    BY <1>4
  <2> QED
    BY <1>2, <1>5, <2>1, Zenon DEF Cut!WholeInv
<1> QED
  BY <1>2, <1>6, <1>7, <1>8, <1>9, <1>10 DEF Cut!IInv

\* A frame that is mapped as a whole ends at the last of its descriptors.
LEMMA CutQueued ==
  ASSUME Cut!IInv, NEW f \in CutFrames,
         Cut!Avail >= Len(Cut!Whole(f)), Cut!Put(Cut!Whole(f)), UNCHANGED <<x2, x5, x11, x12>>,
         x4' = x1', x10[f] = "stack", x10' = [x10 EXCEPT ![f] = "driver"]
  PROVE  Cut!IInv'
<1> DEFINE n == Len(Cut!Whole(f))
           Fresh(i) == Cut!Dist(x2, i) - Cut!Dist(x2, x1) + 1 \in 1 .. n
<1>0. /\ x10 \in [CutFrames -> {"stack", "driver", "freed", "lost"}]
      /\ x10' \in [CutFrames -> {"stack", "driver", "freed", "lost"}] /\ x10'[f] = "driver"
      /\ \A g \in CutFrames \ {f} : x10'[g] = x10[g]
  BY DEF Cut!IInv, Cut!TypeOK
<1>1. \A g \in CutFrames : x10[g] = "lost" => x10'[g] = "lost"
  BY <1>0
<1>2. /\ Cut!Whole(f) \in Seq(Cut!Descs) /\ n \in Nat /\ n >= 1
      /\ \A d \in 1 .. n : /\ Cut!Whole(f)[d] \in Cut!Descs /\ Cut!Whole(f)[d].of = f
                           /\ Cut!Whole(f)[d].skb <=> d = n
  BY CutWhole
<1>3. /\ x1' \in Cut!Slots /\ x3' \in [Cut!Slots -> Cut!Descs]
      /\ Cut!Dist(x2, x1) <= Cut!Dist(x2, x1')
      /\ \A i \in Cut!Slots :
             Cut!Pos(i)' = Cut!Pos(i) /\ (Cut!Dist(x2, i) < Cut!Dist(x2, x1) => x3'[i] = x3[i])
      /\ \A i \in Cut!Slots : Cut!Unread(i)' => Cut!Unread(i) \/ Fresh(i)
      /\ \A i \in Cut!Slots : Cut!Unread(i) =>
            (~x3[i].eop /\ Cut!Junk(x3[i].of))' \/ Cut!Served(x3[i].of, Cut!Pos(i))'
      /\ \A e \in Cut!Slots : x3[e].skb /\ Cut!Unread(e) => Cut!Intact(e)'
      /\ Cut!GatheredInv' /\ Cut!FrameEndsPacket'
  BY <1>1, <1>2, CutAdd DEF Fresh
<1>4. /\ Cut!Dist(x2, x1') = Cut!Dist(x2, x1) + n
      /\ \A i \in Cut!Slots :
            x3'[i] = IF Fresh(i) THEN Cut!Whole(f)[Cut!Dist(x2, i) - Cut!Dist(x2, x1) + 1]
            ELSE x3[i]
  BY <1>2, CutPut DEF Cut!IInv
<1>5. /\ x2 \in Cut!Slots /\ CutCount \in Nat /\ Cut!Dist(x2, x5) \in Nat
      /\ Cut!Dist(x2, x1) \in Nat /\ Cut!Dist(x2, x1') \in Nat
      /\ Cut!Dist(x2, x5) <= Cut!Dist(x2, x1) /\ Cut!Dist(x2, x1') < CutCount
      /\ \A i \in Cut!Slots :
             Cut!Dist(x2, i) \in Nat /\ Cut!Pos(i) = Cut!Dist(x2, i) - Cut!Dist(x2, x5)
  <2>1. x2 \in Cut!Slots
    BY CutNumbers DEF Cut!IInv
  <2>2. Cut!Dist(x2, x1') \in Nat /\ Cut!Dist(x2, x1') < CutCount
    BY <1>3, <2>1, CutDist
  <2> QED
    BY <2>1, <2>2, CutNumbers DEF Cut!IInv
<1> HIDE DEF n, Fresh
<1>6. PICK e \in Cut!Slots : Cut!Dist(x2, e) = Cut!Dist(x2, x1) + n - 1
  BY <1>2, <1>4, <1>5, CutAt
<1>7. ASSUME NEW i \in Cut!Slots, Fresh(i)
      PROVE  /\ x3'[i] = Cut!Whole(f)[Cut!Dist(x2, i) - Cut!Dist(x2, x1) + 1]
             /\ x3'[i].of = f /\ (x3'[i].skb => i = e) /\ (i = e => x3'[i].skb)
  <2>1. /\ x3'[i] = Cut!Whole(f)[Cut!Dist(x2, i) - Cut!Dist(x2, x1) + 1]
        /\ x3'[i].of = f /\ (x3'[i].skb <=> Cut!Dist(x2, i) - Cut!Dist(x2, x1) + 1 = n)
    BY <1>2, <1>4, <1>7 DEF Fresh
  <2>2. Cut!Dist(x2, i) - Cut!Dist(x2, x1) + 1 = n <=> Cut!Dist(x2, i) = Cut!Dist(x2, e)
    BY <1>2, <1>5, <1>6
  <2>3. Cut!Dist(x2, i) = Cut!Dist(x2, e) <=> i = e
    BY <1>5, <1>6, CutSame
  <2> QED
    BY <2>1, <2>2, <2>3
<1>8. Cut!Dist(x2, e) - Cut!Dist(x2, x1) + 1 \in 1 .. n /\ x3'[e].skb /\ x3'[e].of = f
  <2>1. Cut!Dist(x2, e) - Cut!Dist(x2, x1) + 1 \in 1 .. n
    BY <1>2, <1>5, <1>6
  <2> QED
    BY <1>7, <2>1 DEF Fresh
<1>9. Cut!Unread(e)'
  BY <1>2, <1>3, <1>4, <1>5, <1>6 DEF Cut!Unread
<1>10. \A i \in Cut!Slots : x3'[i].skb => i = e \/ (x3[i].skb /\ x3'[i] = x3[i])
  <2> SUFFICES ASSUME NEW i \in Cut!Slots, x3'[i].skb
               PROVE  i = e \/ (x3[i].skb /\ x3'[i] = x3[i])
    OBVIOUS
  <2>1. CASE Fresh(i)
    BY <1>7, <2>1, Zenon
  <2>2. CASE ~Fresh(i)
    BY <1>4, <2>2
  <2> QED
    BY <2>1, <2>2
<1>11. Cut!TypeOK'
  BY <1>0, <1>3 DEF Cut!IInv, Cut!TypeOK
<1>12. Cut!OrderInv'
  BY <1>3, <1>5 DEF Cut!OrderInv
<1>13. Cut!SkbInv'
  <2>1. /\ \A i \in Cut!Slots : x3[i].skb =>
               x3[i].of \in CutFrames /\ x10[x3[i].of] = "driver"
               /\ Cut!Dist(x2, i) < Cut!Dist(x2, x1)
        /\ \A i, j \in Cut!Slots : x3[i].skb /\ x3[j].skb /\ x3[i].of = x3[j].of => i = j
        /\ \A g \in CutFrames : x10[g] = "driver" =>
               \E i \in Cut!Slots : x3[i].skb /\ x3[i].of = g
    BY DEF Cut!IInv, Cut!SkbInv
  <2>2. \A i \in Cut!Slots : x3[i].skb => x3[i].of # f /\ Cut!Dist(x2, i) < Cut!Dist(x2, x1')
    BY <1>3, <1>5, <2>1
  <2>3. \A i \in Cut!Slots : x3'[i].skb =>
            x3'[i].of \in CutFrames /\ x10'[x3'[i].of] = "driver"
            /\ Cut!Dist(x2, i) < Cut!Dist(x2, x1')
    <3> SUFFICES ASSUME NEW i \in Cut!Slots, x3'[i].skb
                 PROVE  /\ x3'[i].of \in CutFrames /\ x10'[x3'[i].of] = "driver"
                        /\ Cut!Dist(x2, i) < Cut!Dist(x2, x1')
      OBVIOUS
    <3>1. CASE i = e
      BY <1>0, <1>2, <1>4, <1>5, <1>6, <1>8, <3>1
    <3>2. CASE i # e
      BY <1>0, <1>10, <2>1, <2>2, <3>2
    <3> QED
      BY <3>1, <3>2
  <2>4. \A i, j \in Cut!Slots : x3'[i].skb /\ x3'[j].skb /\ x3'[i].of = x3'[j].of => i = j
    BY <1>8, <1>10, <2>1, <2>2, Zenon
  <2>5. \A g \in CutFrames : x10'[g] = "driver" =>
            \E i \in Cut!Slots : x3'[i].skb /\ x3'[i].of = g
    BY <1>0, <1>3, <1>8, <2>1
  <2> QED
    BY <2>3, <2>4, <2>5 DEF Cut!SkbInv
<1>14. Cut!UnreadInv'
  <2>1. ASSUME NEW i \in Cut!Slots, Fresh(i)
        PROVE  Cut!Served(x3[i].of, Cut!Pos(i))'
    <3>1. Cut!Pos(i) <= Cut!Pos(e) /\ Cut!Pos(e) < Cut!Pos(i) + n
      BY <1>2, <1>5, <1>6, <2>1, SMTT(30) DEF Fresh
    <3>2. Cut!Covers(e, Cut!Pos(i))'
      BY <1>3, <1>8, <1>9, <3>1 DEF Cut!Covers, n
    <3> QED
      BY <1>7, <1>8, <2>1, <3>2 DEF Cut!Served
  <2> QED
    BY <1>3, <2>1, Zenon DEF Cut!UnreadInv
<1>15. Cut!WholeInv'
  <2>1. Cut!Intact(e)'
    <3>1. ASSUME NEW d \in 1 .. n
          PROVE  LET p == Cut!Pos(e) - n + d
                 IN  p >= 0 /\ \A i \in Cut!Slots : Cut!Pos(i) = p => x3'[i] = Cut!Whole(f)[d]
      <4>1. Cut!Pos(e) - n + d = Cut!Dist(x2, x1) - Cut!Dist(x2, x5) + d - 1
        BY <1>2, <1>5, <1>6
      <4>2. Cut!Dist(x2, x1) - Cut!Dist(x2, x5) + d - 1 >= 0
        BY <1>5
      <4>3. ASSUME NEW i \in Cut!Slots, Cut!Pos(i) = Cut!Dist(x2, x1) - Cut!Dist(x2, x5) + d - 1
            PROVE  x3'[i] = Cut!Whole(f)[d]
        <5>1. Cut!Dist(x2, i) - Cut!Dist(x2, x1) + 1 = d /\ Fresh(i)
          BY <1>2, <1>5, <4>3, SMTT(30) DEF Fresh
        <5> QED
          BY <1>7, <5>1, SMTT(30)
      <4> QED
        BY <4>1, <4>2, <4>3
    <3>2. \A d \in 1 .. n :
              LET p == Cut!Pos(e)' - n + d
              IN  /\ p >= 0 => \A i \in Cut!Slots : Cut!Pos(i)' = p => x3'[i] = Cut!Whole(f)[d]
                  /\ p < 0 => /\ Len(x11') + p >= 0
                              /\ x11'[Len(x11') + 1 + p] = <<x3'[e].of, Cut!Whole(f)[d].part>>
      BY <1>3, <1>5, <1>2, <3>1
    <3>3. n = Len(Cut!Whole(x3'[e].of)) /\ Cut!Whole(f) = Cut!Whole(x3'[e].of)
      BY <1>8 DEF n
    <3> QED
      BY <3>2, <3>3, ZenonT(40) DEF Cut!Intact
  <2>2. \A i \in Cut!Slots : x3'[i].skb /\ Cut!Unread(i)' => i = e \/ (x3[i].skb /\ Cut!Unread(i))
    <3> SUFFICES ASSUME NEW i \in Cut!Slots, x3'[i].skb, Cut!Unread(i)'
                 PROVE  i = e \/ (x3[i].skb /\ Cut!Unread(i))
      OBVIOUS
    <3>1. i = e \/ ~Fresh(i)
      BY <1>7, Zenon
    <3>2. i = e \/ x3[i].skb
      BY <1>10, Zenon
    <3> QED
      BY <1>3, <3>1, <3>2, Zenon
  <2> QED
    BY <1>3, <2>1, <2>2, Zenon DEF Cut!WholeInv
<1> QED
  BY <1>3, <1>11, <1>12, <1>13, <1>14, <1>15 DEF Cut!IInv

\* The NIC reads the next descriptor: the stream moves on by one place.
LEMMA CutShift ==
  ASSUME Cut!IInv, Cut!HwRead
  PROVE  /\ Cut!TypeOK' /\ Cut!OrderInv' /\ Cut!SkbInv'
         /\ Cut!Unread(x5) /\ Cut!Pos(x5) = 0
         /\ \A i \in Cut!Slots : /\ Cut!Pos(i) \in Int /\ Cut!Pos(i)' = Cut!Pos(i) - 1
                                 /\ Cut!Unread(i)' <=> Cut!Unread(i) /\ Cut!Pos(i) >= 1
                                 /\ Cut!Pos(i) = 0 <=> i = x5
                                 /\ Cut!Unread(i) => Cut!Pos(i) >= 0
<1>1. /\ x2 \in Cut!Slots /\ x4 \in Cut!Slots /\ x5 \in Cut!Slots /\ CutCount \in Nat
      /\ Cut!Dist(x2, x5) \in Nat /\ Cut!Dist(x2, x4) \in Nat /\ Cut!Dist(x2, x1) \in Nat
      /\ Cut!Dist(x2, x5) <= Cut!Dist(x2, x4) /\ Cut!Dist(x2, x4) <= Cut!Dist(x2, x1)
      /\ Cut!Dist(x2, x1) < CutCount
      /\ \A i \in Cut!Slots :
             Cut!Dist(x2, i) \in Nat /\ Cut!Pos(i) = Cut!Dist(x2, i) - Cut!Dist(x2, x5)
  BY CutNumbers DEF Cut!IInv
<1>2. Cut!Dist(x2, x5) # Cut!Dist(x2, x4)
  BY <1>1, CutSame DEF Cut!HwRead
<1>3. x5' \in Cut!Slots /\ Cut!Dist(x2, x5') = Cut!Dist(x2, x5) + 1
  BY <1>1, <1>2, CutAhead DEF Cut!HwRead
<1>4. \A i \in Cut!Slots : Cut!Pos(i) = 0 <=> i = x5
  BY <1>1, CutSame
<1>5. Cut!Unread(x5)
  BY <1>1, <1>2, <1>4 DEF Cut!Unread
<1>6. \A i \in Cut!Slots : Cut!Pos(i)' = Cut!Pos(i) - 1
  BY <1>1, <1>3 DEF Cut!HwRead, Cut!Pos
<1>7. \A i \in Cut!Slots : Cut!Unread(i)' <=> Cut!Unread(i) /\ Cut!Pos(i) >= 1
  BY <1>1, <1>6 DEF Cut!HwRead, Cut!Unread
<1>8. Cut!TypeOK'
  <2>1. x3[x5].of \in CutFrames \cup {"none"} /\ x3[x5].part \in Int
    BY <1>1 DEF Cut!IInv, Cut!TypeOK, Cut!Descs
  <2>2. <<x3[x5].of, x3[x5].part>> \in (CutFrames \cup {"none"}) \X Int
    BY <2>1
  <2>3. Append(x11, <<x3[x5].of, x3[x5].part>>) \in Cut!Packets
    BY <2>2 DEF Cut!IInv, Cut!TypeOK, Cut!Packets
  <2>4. x11' \in Cut!Packets /\ x12' \in Cut!Packets
    <3>1. <<>> \in Cut!Packets /\ x12 \in Cut!Packets
      BY DEF Cut!IInv, Cut!TypeOK, Cut!Packets
    <3>2. /\ x11' = <<>> \/ x11' = Append(x11, <<x3[x5].of, x3[x5].part>>)
          /\ x12' = x12 \/ x12' = Append(x11, <<x3[x5].of, x3[x5].part>>)
      BY DEF Cut!HwRead
    <3> QED
      BY <2>3, <3>1, <3>2
  <2> QED
    BY <1>3, <2>4 DEF Cut!IInv, Cut!TypeOK, Cut!HwRead
<1>9. Cut!OrderInv'
  <2>1. Cut!Dist(x2, x5') <= Cut!Dist(x2, x4)
    BY <1>1, <1>2, <1>3
  <2> QED
    BY <1>1, <2>1 DEF Cut!OrderInv, Cut!HwRead
<1>10. Cut!SkbInv'
  BY DEF Cut!IInv, Cut!SkbInv, Cut!HwRead
<1> QED
  BY <1>1, <1>4, <1>5, <1>6, <1>7, <1>8, <1>9, <1>10 DEF Cut!Unread

\* In the middle of a packet.
LEMMA CutReadOn ==
  ASSUME Cut!IInv, Cut!HwRead, ~x3[x5].eop
  PROVE  Cut!IInv'
<1>1. /\ Cut!TypeOK' /\ Cut!OrderInv' /\ Cut!SkbInv'
      /\ Cut!Unread(x5) /\ Cut!Pos(x5) = 0
      /\ \A i \in Cut!Slots : /\ Cut!Pos(i) \in Int /\ Cut!Pos(i)' = Cut!Pos(i) - 1
                              /\ Cut!Unread(i)' <=> Cut!Unread(i) /\ Cut!Pos(i) >= 1
                              /\ Cut!Pos(i) = 0 <=> i = x5
                              /\ Cut!Unread(i) => Cut!Pos(i) >= 0
  BY CutShift
<1>2. PICK cell : cell = <<x3[x5].of, x3[x5].part>>
  OBVIOUS
<1>3. /\ x5 \in Cut!Slots /\ Len(x11) \in Nat
      /\ \A f \in CutFrames : Len(Cut!Whole(f)) \in Nat /\ Len(Cut!Whole(f)) >= 1
  BY CutNumbers DEF Cut!IInv
<1>4. /\ x11' = Append(x11, cell) /\ x12' = x12 /\ x3' = x3 /\ x10' = x10
      /\ x1' = x1 /\ x2' = x2
  BY <1>2 DEF Cut!HwRead
<1>5. /\ Len(x11') = Len(x11) + 1 /\ x11'[Len(x11) + 1] = cell
      /\ \A d \in 1 .. Len(x11) : x11'[d] = x11[d]
  BY <1>3, <1>4 DEF Cut!IInv, Cut!TypeOK, Cut!Packets
<1>6. ~x3[x5].skb
  <2> SUFFICES ASSUME x3[x5].skb
               PROVE  FALSE
    OBVIOUS
  <2>1. x3[x5].of \in CutFrames
    BY <1>3 DEF Cut!IInv, Cut!SkbInv
  <2>2. Cut!Covers(x5, 0)
    BY <1>1, <1>3, <2>1 DEF Cut!Covers
  <2>3. PICK k : k = 0 - Cut!Pos(x5) + Len(Cut!Whole(x3[x5].of))
    OBVIOUS
  <2>4. Cut!Whole(x3[x5].of)[k].eop /\ x3[x5] = Cut!Whole(x3[x5].of)[k]
    BY <1>1, <1>3, <2>2, <2>3, CutCovers
  <2> QED
    BY <2>4
<1>7. ASSUME NEW f, NEW p \in Int, Cut!Served(f, p)
      PROVE  Cut!Served(f, p - 1)'
  <2>1. PICK e \in Cut!Slots : Cut!Covers(e, p) /\ x3[e].of = f
    BY <1>7 DEF Cut!Served
  <2>2. x3[e].skb /\ x3[e].of \in CutFrames /\ Cut!Unread(e)
    BY <2>1, CutCovers
  <2>3. e # x5 /\ Cut!Pos(e) \in Int /\ Len(Cut!Whole(x3[e].of)) \in Nat
    BY <1>1, <1>3, <1>6, <2>2
  <2>4. Cut!Unread(e)' /\ Cut!Pos(e)' = Cut!Pos(e) - 1
    BY <1>1, <2>2, <2>3
  <2>5. p - 1 <= Cut!Pos(e) - 1 /\ Cut!Pos(e) - 1 < p - 1 + Len(Cut!Whole(x3[e].of))
    BY <2>1, <2>3 DEF Cut!Covers
  <2>6. Cut!Covers(e, p - 1)'
    BY <1>4, <2>2, <2>4, <2>5 DEF Cut!Covers
  <2> QED
    BY <1>4, <2>1, <2>6 DEF Cut!Served
<1>8. Cut!UnreadInv'
  <2> SUFFICES ASSUME NEW i \in Cut!Slots, Cut!Unread(i)'
               PROVE  (~x3[i].eop /\ Cut!Junk(x3[i].of))' \/ Cut!Served(x3[i].of, Cut!Pos(i))'
    BY DEF Cut!UnreadInv
  <2>1. Cut!Unread(i) /\ Cut!Pos(i) \in Int /\ Cut!Pos(i)' = Cut!Pos(i) - 1
    BY <1>1
  <2>2. (~x3[i].eop /\ Cut!Junk(x3[i].of)) \/ Cut!Served(x3[i].of, Cut!Pos(i))
    BY <2>1 DEF Cut!IInv, Cut!UnreadInv
  <2>3. CASE ~x3[i].eop /\ Cut!Junk(x3[i].of)
    BY <1>4, <2>3, Zenon DEF Cut!Junk
  <2>4. CASE Cut!Served(x3[i].of, Cut!Pos(i))
    <3>1. PICK f : f = x3[i].of
      OBVIOUS
    <3>2. PICK p \in Int : p = Cut!Pos(i)
      BY <2>1
    <3>3. Cut!Served(f, p)
      BY <2>4, <3>1, <3>2
    <3>4. Cut!Served(f, p - 1)'
      BY <1>7, <3>3
    <3>5. x3'[i].of = f /\ Cut!Pos(i)' = p - 1
      BY <1>4, <2>1, <3>1, <3>2
    <3> QED
      BY <3>4, <3>5, Zenon
  <2> QED
    BY <2>2, <2>3, <2>4
<1>9. Cut!GatheredInv'
  <2> SUFFICES ASSUME NEW d \in 1 .. Len(x11')
               PROVE  Cut!Junk(x11[d][1])' \/ Cut!Served(x11[d][1], d - 1 - Len(x11))'
    BY DEF Cut!GatheredInv
  <2>1. CASE d \in 1 .. Len(x11)
    <3>1. PICK f : f = x11[d][1]
      OBVIOUS
    <3>7. d - 1 - Len(x11) \in Int
      BY <1>3, <2>1
    <3>2. PICK p \in Int : p = d - 1 - Len(x11)
      BY <3>7, Zenon
    <3>3. Cut!Junk(f) \/ Cut!Served(f, p)
      BY <2>1, <3>1, <3>2 DEF Cut!IInv, Cut!GatheredInv
    <3>4. x11'[d][1] = f /\ d - 1 - Len(x11') = p - 1
      BY <1>3, <1>5, <2>1, <3>1, <3>2
    <3>5. Cut!Junk(f) => Cut!Junk(f)'
      BY <1>4, Zenon DEF Cut!Junk
    <3>6. Cut!Served(f, p) => Cut!Served(f, p - 1)'
      BY <1>7
    <3> QED
      BY <3>3, <3>4, <3>5, <3>6, Zenon
  <2>2. CASE d = Len(x11) + 1
    <3>1. PICK f : f = x3[x5].of
      OBVIOUS
    <3>2. Cut!Junk(f) \/ Cut!Served(f, 0)
      BY <1>1, <1>3, <3>1 DEF Cut!IInv, Cut!UnreadInv
    <3>3. x11'[d][1] = f /\ d - 1 - Len(x11') = 0 - 1
      BY <1>2, <1>3, <1>5, <2>2, <3>1
    <3>4. Cut!Junk(f) => Cut!Junk(f)'
      BY <1>4, Zenon DEF Cut!Junk
    <3>5. Cut!Served(f, 0) => Cut!Served(f, 0 - 1)'
      BY <1>7
    <3> QED
      BY <3>2, <3>3, <3>4, <3>5, Zenon
  <2> QED
    BY <1>3, <1>5, <2>1, <2>2
<1>10. Cut!WholeInv'
  <2> SUFFICES ASSUME NEW e \in Cut!Slots, x3'[e].skb, Cut!Unread(e)'
               PROVE  Cut!Intact(e)'
    BY DEF Cut!WholeInv
  <2>1. x3[e].skb /\ Cut!Unread(e) /\ Cut!Pos(e) \in Int /\ Cut!Pos(e)' = Cut!Pos(e) - 1
    BY <1>1, <1>4
  <2>2. x3[e].of \in CutFrames /\ Cut!Intact(e)
    BY <2>1 DEF Cut!IInv, Cut!SkbInv, Cut!WholeInv
  <2>3. PICK f : f = x3[e].of
    OBVIOUS
  <2>4. PICK whole : whole = Cut!Whole(f)
    OBVIOUS
  <2>5. Len(whole) \in Nat
    BY <1>3, <2>2, <2>3, <2>4
  <2>6. ASSUME NEW d \in 1 .. Len(whole)
        PROVE  LET p == Cut!Pos(e) - 1 - Len(whole) + d
               IN  /\ p >= 0 => \A i \in Cut!Slots : Cut!Pos(i)' = p => x3[i] = whole[d]
                   /\ p < 0 => /\ Len(x11') + p >= 0
                               /\ x11'[Len(x11') + 1 + p] = <<f, whole[d].part>>
    <3>1. PICK p \in Int : p = Cut!Pos(e) - Len(whole) + d
      BY <2>1, <2>5
    <3>2. /\ p >= 0 => \A i \in Cut!Slots : Cut!Pos(i) = p => x3[i] = whole[d]
          /\ p < 0 => /\ Len(x11) + p >= 0
                      /\ x11[Len(x11) + 1 + p] = <<f, whole[d].part>>
      BY <2>2, <2>3, <2>4, <3>1, Zenon DEF Cut!Intact
    <3>3. p - 1 >= 0 => \A i \in Cut!Slots : Cut!Pos(i)' = p - 1 => x3[i] = whole[d]
      BY <1>1, <3>2
    <3>4. ASSUME p = 0
          PROVE  Len(x11') + p - 1 >= 0 /\ x11'[Len(x11') + p] = <<f, whole[d].part>>
      <4>1. x3[x5] = whole[d] /\ x3[x5].of = f
        <5>1. x3[x5] = whole[d]
          BY <1>1, <1>3, <3>2, <3>4
        <5> QED
          BY <2>2, <2>3, <2>4, <5>1, CutWhole
      <4> QED
        BY <1>2, <1>3, <1>5, <3>4, <4>1
    <3>5. ASSUME p < 0
          PROVE  Len(x11') + p - 1 >= 0 /\ x11'[Len(x11') + p] = <<f, whole[d].part>>
      <4>1. Len(x11) + 1 + p \in 1 .. Len(x11)
        BY <1>3, <3>2, <3>5
      <4>2. Len(x11') + p = Len(x11) + 1 + p
        BY <1>3, <1>5
      <4> QED
        BY <1>3, <1>5, <3>2, <3>5, <4>1, <4>2
    <3>9. d \in Int
      BY <2>5
    <3>6. Cut!Pos(e) - 1 - Len(whole) + d = p - 1
      BY <2>1, <2>5, <3>1, <3>9
    <3>10. Len(x11') + 1 + (p - 1) = Len(x11') + p
      BY <1>3, <1>5
    <3>7. p - 1 < 0 => p < 0 \/ p = 0
      OBVIOUS
    <3>8. Len(x11') + (p - 1) = Len(x11') + p - 1
      BY <1>3, <1>5
    <3> QED
      BY <3>3, <3>4, <3>5, <3>6, <3>7, <3>8, <3>10, Zenon
  <2>7. whole = Cut!Whole(x3'[e].of) /\ f = x3'[e].of
    BY <1>4, <2>3, <2>4
  <2>8. ASSUME NEW d \in 1 .. Len(whole)
        PROVE  LET p == Cut!Pos(e)' - Len(whole) + d
               IN  /\ p >= 0 => \A i \in Cut!Slots : Cut!Pos(i)' = p => x3'[i] = whole[d]
                   /\ p < 0 => /\ Len(x11') + p >= 0
                               /\ x11'[Len(x11') + 1 + p] = <<f, whole[d].part>>
    BY <1>4, <2>1, <2>6, Zenon
  <2> QED
    BY <2>7, <2>8, Zenon DEF Cut!Intact
<1>11. Cut!FrameEndsPacket'
  BY <1>4 DEF Cut!IInv, Cut!FrameEndsPacket
<1> QED
  BY <1>1, <1>8, <1>9, <1>10, <1>11 DEF Cut!IInv

\* The end of a packet is the end of a frame, and the packet ends with it.
LEMMA CutReadEnd ==
  ASSUME Cut!IInv, Cut!HwRead, x3[x5].eop
  PROVE  Cut!IInv'
<1>1. /\ Cut!TypeOK' /\ Cut!OrderInv' /\ Cut!SkbInv'
      /\ Cut!Unread(x5) /\ Cut!Pos(x5) = 0
      /\ \A i \in Cut!Slots : /\ Cut!Pos(i) \in Int /\ Cut!Pos(i)' = Cut!Pos(i) - 1
                              /\ Cut!Unread(i)' <=> Cut!Unread(i) /\ Cut!Pos(i) >= 1
                              /\ Cut!Pos(i) = 0 <=> i = x5
                              /\ Cut!Unread(i) => Cut!Pos(i) >= 0
  BY CutShift
<1>2. PICK cell : cell = <<x3[x5].of, x3[x5].part>>
  OBVIOUS
<1>3. /\ x5 \in Cut!Slots /\ Len(x11) \in Nat
      /\ \A f \in CutFrames : Len(Cut!Whole(f)) \in Nat /\ Len(Cut!Whole(f)) >= 1
  BY CutNumbers DEF Cut!IInv
<1>4. /\ x12' = Append(x11, cell) /\ x11' = <<>> /\ x3' = x3 /\ x10' = x10
      /\ x1' = x1 /\ x2' = x2
  BY <1>2 DEF Cut!HwRead
<1>5. /\ Len(x12') = Len(x11) + 1 /\ x12'[Len(x11) + 1] = cell
      /\ \A d \in 1 .. Len(x11) : x12'[d] = x11[d]
  BY <1>3, <1>4 DEF Cut!IInv, Cut!TypeOK, Cut!Packets
\* A frame that covers the place the NIC reads ends there.
<1>6. ASSUME NEW e \in Cut!Slots, Cut!Covers(e, 0)
      PROVE  e = x5
  <2>1. PICK k : k = 0 - Cut!Pos(e) + Len(Cut!Whole(x3[e].of))
    OBVIOUS
  <2>2. /\ Cut!Whole(x3[e].of)[k].eop => 0 = Cut!Pos(e)
        /\ x3[x5] = Cut!Whole(x3[e].of)[k]
    BY <1>1, <1>3, <1>6, <2>1, CutCovers
  <2> QED
    BY <1>1, <2>2
<1>7. x3[x5].skb /\ Cut!Covers(x5, 0)
  <2>1. Cut!Served(x3[x5].of, 0)
    BY <1>1, <1>3 DEF Cut!IInv, Cut!UnreadInv
  <2>2. Cut!Covers(x5, 0)
    BY <1>6, <2>1, Zenon DEF Cut!Served
  <2> QED
    BY <2>2 DEF Cut!Covers
<1>8. ASSUME NEW f, NEW p \in Int, p >= 1, Cut!Served(f, p)
      PROVE  Cut!Served(f, p - 1)'
  <2>1. PICK e \in Cut!Slots : Cut!Covers(e, p) /\ x3[e].of = f
    BY <1>8 DEF Cut!Served
  <2>2. x3[e].skb /\ x3[e].of \in CutFrames /\ Cut!Unread(e) /\ p <= Cut!Pos(e)
    BY <2>1, CutCovers
  <2>3. Cut!Pos(e) >= 1 /\ Cut!Pos(e) \in Int /\ Len(Cut!Whole(x3[e].of)) \in Nat
    BY <1>1, <1>3, <1>8, <2>2
  <2>4. Cut!Unread(e)' /\ Cut!Pos(e)' = Cut!Pos(e) - 1
    BY <1>1, <2>2, <2>3
  <2>5. p - 1 <= Cut!Pos(e) - 1 /\ Cut!Pos(e) - 1 < p - 1 + Len(Cut!Whole(x3[e].of))
    BY <2>1, <2>3 DEF Cut!Covers
  <2>6. Cut!Covers(e, p - 1)'
    BY <1>4, <2>2, <2>4, <2>5 DEF Cut!Covers
  <2> QED
    BY <1>4, <2>1, <2>6 DEF Cut!Served
<1>9. Cut!UnreadInv'
  <2> SUFFICES ASSUME NEW i \in Cut!Slots, Cut!Unread(i)'
               PROVE  (~x3[i].eop /\ Cut!Junk(x3[i].of))' \/ Cut!Served(x3[i].of, Cut!Pos(i))'
    BY DEF Cut!UnreadInv
  <2>1. /\ Cut!Unread(i) /\ Cut!Pos(i) \in Int /\ Cut!Pos(i) >= 1
        /\ Cut!Pos(i)' = Cut!Pos(i) - 1
    BY <1>1
  <2>2. (~x3[i].eop /\ Cut!Junk(x3[i].of)) \/ Cut!Served(x3[i].of, Cut!Pos(i))
    BY <2>1 DEF Cut!IInv, Cut!UnreadInv
  <2>3. CASE ~x3[i].eop /\ Cut!Junk(x3[i].of)
    BY <1>4, <2>3, Zenon DEF Cut!Junk
  <2>4. CASE Cut!Served(x3[i].of, Cut!Pos(i))
    <3>1. PICK f : f = x3[i].of
      OBVIOUS
    <3>2. PICK p \in Int : p = Cut!Pos(i)
      BY <2>1
    <3>3. Cut!Served(f, p) /\ p >= 1
      BY <2>1, <2>4, <3>1, <3>2
    <3>4. Cut!Served(f, p - 1)'
      BY <1>8, <3>3
    <3>5. x3'[i].of = f /\ Cut!Pos(i)' = p - 1
      BY <1>4, <2>1, <3>1, <3>2
    <3> QED
      BY <3>4, <3>5, Zenon
  <2> QED
    BY <2>2, <2>3, <2>4
<1>10. Cut!GatheredInv'
  BY <1>4 DEF Cut!GatheredInv
<1>11. Cut!WholeInv'
  <2> SUFFICES ASSUME NEW e \in Cut!Slots, x3'[e].skb, Cut!Unread(e)'
               PROVE  Cut!Intact(e)'
    BY DEF Cut!WholeInv
  <2>1. /\ x3[e].skb /\ Cut!Unread(e) /\ Cut!Pos(e) \in Int /\ Cut!Pos(e) >= 1
        /\ Cut!Pos(e)' = Cut!Pos(e) - 1 /\ e # x5
    BY <1>1, <1>4
  <2>2. x3[e].of \in CutFrames /\ Cut!Intact(e)
    BY <2>1 DEF Cut!IInv, Cut!SkbInv, Cut!WholeInv
  <2>3. PICK f : f = x3[e].of
    OBVIOUS
  <2>4. PICK whole : whole = Cut!Whole(f)
    OBVIOUS
  <2>5. Len(whole) \in Nat
    BY <1>3, <2>2, <2>3, <2>4
  <2>6. Cut!Pos(e) - Len(whole) >= 0
    <3>1. ~Cut!Covers(e, 0)
      BY <1>6, <2>1
    <3> QED
      BY <2>1, <2>3, <2>4, <2>5, <3>1 DEF Cut!Covers
  <2>7. whole = Cut!Whole(x3'[e].of) /\ f = x3'[e].of
    BY <1>4, <2>3, <2>4
  <2>8. ASSUME NEW d \in 1 .. Len(whole)
        PROVE  LET p == Cut!Pos(e)' - Len(whole) + d
               IN  /\ p >= 0 => \A i \in Cut!Slots : Cut!Pos(i)' = p => x3'[i] = whole[d]
                   /\ p < 0 => /\ Len(x11') + p >= 0
                               /\ x11'[Len(x11') + 1 + p] = <<f, whole[d].part>>
    <3>1. PICK p \in Int : p = Cut!Pos(e) - Len(whole) + d
      BY <2>1, <2>5
    <3>2. Cut!Pos(e)' - Len(whole) + d = p - 1 /\ p - 1 >= 0
      BY <2>1, <2>5, <2>6, <3>1
    <3>3. p >= 0 => \A i \in Cut!Slots : Cut!Pos(i) = p => x3[i] = whole[d]
      BY <2>2, <2>3, <2>4, <3>1, Zenon DEF Cut!Intact
    <3>4. \A i \in Cut!Slots : Cut!Pos(i)' = p - 1 => x3'[i] = whole[d]
      BY <1>1, <1>4, <3>2, <3>3
    <3>5. ~(p - 1 < 0)
      BY <3>2
    <3> QED
      BY <3>2, <3>4, <3>5, Zenon
  <2> QED
    BY <2>7, <2>8, Zenon DEF Cut!Intact
<1>12. Cut!FrameEndsPacket'
  <2>1. PICK f \in CutFrames : f = x3[x5].of
    BY <1>3, <1>7, CutCovers
  <2>2. PICK whole : whole = Cut!Whole(f)
    OBVIOUS
  <2>3. PICK n \in Nat : n = Len(whole) /\ n >= 1
    BY <1>3, <2>2
  <2>4. PICK m \in Nat : m = Len(x11)
    BY <1>3
  <2>5. Cut!Intact(x5)
    BY <1>1, <1>3, <1>7 DEF Cut!IInv, Cut!WholeInv
  <2>6. ASSUME NEW d \in 1 .. n - 1
        PROVE  m - n + d >= 0 /\ x12'[m + 1 - n + d] = <<f, whole[d].part>>
    <3>1. PICK p \in Int : p = Cut!Pos(x5) - n + d
      BY <1>1
    <3>2. /\ p < 0 => /\ m + p >= 0
                      /\ x11[m + 1 + p] = <<f, whole[d].part>>
      <4>1. d \in 1 .. Len(whole)
        BY <2>3
      <4> QED
        BY <2>1, <2>2, <2>3, <2>4, <2>5, <3>1, <4>1, Zenon DEF Cut!Intact
    <3>3. p = d - n /\ p < 0
      BY <1>1, <3>1
    <3>4. m - n + d = m + p /\ m + 1 - n + d = m + 1 + p /\ m + 1 + p \in 1 .. m
      BY <3>2, <3>3
    <3> QED
      BY <1>5, <2>4, <3>2, <3>3, <3>4
  <2>7. x12'[m + 1] = <<f, whole[n].part>>
    <3>1. PICK k : k = 0 - Cut!Pos(x5) + Len(Cut!Whole(x3[x5].of))
      OBVIOUS
    <3>2. x3[x5] = Cut!Whole(x3[x5].of)[k]
      BY <1>1, <1>3, <1>7, <3>1, CutCovers
    <3>3. k = n
      BY <1>1, <2>1, <2>2, <2>3, <3>1
    <3> QED
      BY <1>2, <1>5, <2>1, <2>2, <2>4, <3>2, <3>3
  <2>8. m + 1 - n >= 0
    <3>1. CASE n = 1
      BY <3>1
    <3>2. CASE n # 1
      <4>1. 1 \in 1 .. n - 1
        BY <2>3, <3>2
      <4> QED
        BY <2>6, <4>1
    <3> QED
      BY <3>1, <3>2
  <2>9. ASSUME NEW d \in 1 .. m + 1 - n
        PROVE  x12'[d][1] = "none" \/ x10'[x12'[d][1]] = "lost"
    <3>1. d \in 1 .. m /\ d - 1 - m \in Int /\ d - 1 - m <= 0 - n
      BY <2>3
    <3>2. PICK g : g = x11[d][1]
      OBVIOUS
    <3>3. PICK p \in Int : p = d - 1 - m /\ p <= 0 - n
      BY <3>1
    <3>4. Cut!Junk(g) \/ Cut!Served(g, p)
      BY <2>4, <3>1, <3>2, <3>3, Zenon DEF Cut!IInv, Cut!GatheredInv
    <3>5. ~Cut!Served(g, p)
      <4> SUFFICES ASSUME NEW e \in Cut!Slots, Cut!Covers(e, p)
                   PROVE  FALSE
        BY Zenon DEF Cut!Served
      <4>1. x3[e].skb /\ x3[e].of \in CutFrames /\ Cut!Unread(e)
        BY CutCovers
      <4>2. PICK l \in Nat : l = Len(Cut!Whole(x3[e].of))
        BY <1>3, <4>1
      <4>3. Cut!Pos(e) < p + l /\ Cut!Pos(e) >= 0 /\ Cut!Pos(e) \in Int
        BY <1>1, <4>1, <4>2 DEF Cut!Covers
      <4>4. 0 <= Cut!Pos(e) /\ Cut!Pos(e) < 0 + l
        BY <2>3, <3>3, <4>3
      <4>5. Cut!Covers(e, 0)
        BY <4>1, <4>2, <4>4 DEF Cut!Covers
      <4>6. e = x5
        BY <1>6, <4>5
      <4>7. l = n /\ Cut!Pos(e) = 0
        BY <1>1, <2>1, <2>2, <2>3, <4>2, <4>6
      <4> QED
        BY <2>3, <3>3, <4>3, <4>7
    <3>6. g = "none" \/ x10[g] = "lost"
      BY <3>4, <3>5 DEF Cut!Junk
    <3>7. x12'[d][1] = g
      BY <1>5, <2>4, <3>1, <3>2
    <3> QED
      BY <1>4, <3>6, <3>7
  <2>10. Len(x12') - n = m + 1 - n
    BY <1>5, <2>4
  <2>11. \A d \in 1 .. n : x12'[m + 1 - n + d] = <<f, whole[d].part>>
    <3> SUFFICES ASSUME NEW d \in 1 .. n
                 PROVE  x12'[m + 1 - n + d] = <<f, whole[d].part>>
      OBVIOUS
    <3>1. CASE d = n
      <4>1. m + 1 - n + d = m + 1
        BY <3>1
      <4> QED
        BY <2>7, <3>1, <4>1
    <3>2. CASE d # n
      <4>1. d \in 1 .. n - 1
        BY <3>2
      <4> QED
        BY <2>6, <4>1
    <3> QED
      BY <3>1, <3>2
  <2>12. DOMAIN whole = 1 .. n
    BY <2>2, <2>3, CutWhole
  <2>13. /\ Len(x12') - Len(whole) >= 0
         /\ \A d \in DOMAIN whole :
                x12'[Len(x12') - Len(whole) + d] = <<f, whole[d].part>>
         /\ \A d \in 1 .. Len(x12') - Len(whole) :
                x12'[d][1] = "none" \/ x10'[x12'[d][1]] = "lost"
    BY <2>3, <2>8, <2>9, <2>10, <2>11, <2>12, Zenon
  <2> QED
    BY <2>2, <2>13, Zenon DEF Cut!FrameEndsPacket
<1> QED
  BY <1>1, <1>9, <1>10, <1>11, <1>12 DEF Cut!IInv

\* atl1c_clean_tx_irq: the stream begins where the NIC has come to.
LEMMA CutIntrTx ==
  ASSUME Cut!IInv, Cut!IntrTx
  PROVE  Cut!IInv'
<1> DEFINE Read(i) == Cut!Dist(x2, i) < Cut!Dist(x2, x5)
<1>1. /\ x1 \in Cut!Slots /\ x2 \in Cut!Slots /\ x4 \in Cut!Slots /\ x5 \in Cut!Slots
      /\ CutCount \in Nat /\ Cut!Dist(x2, x5) \in Nat /\ Cut!Dist(x2, x4) \in Nat
      /\ Cut!Dist(x2, x1) \in Nat
      /\ Cut!Dist(x2, x5) <= Cut!Dist(x2, x4) /\ Cut!Dist(x2, x4) <= Cut!Dist(x2, x1)
      /\ Cut!Dist(x2, x1) < CutCount
      /\ \A i \in Cut!Slots :
             Cut!Dist(x2, i) \in Nat /\ Cut!Dist(x2, i) < CutCount
             /\ Cut!Pos(i) = Cut!Dist(x2, i) - Cut!Dist(x2, x5)
  BY CutNumbers DEF Cut!IInv
<1>2. /\ x2' = x5 /\ x1' = x1 /\ x4' = x4 /\ x5' = x5 /\ x11' = x11 /\ x12' = x12
      /\ x3' = [i \in Cut!Slots |-> IF Read(i) THEN [x3[i] EXCEPT !.skb = FALSE] ELSE x3[i]]
      /\ x10' = [f \in CutFrames |-> IF \E i \in Cut!Slots : Read(i) /\ x3[i].skb /\ x3[i].of = f
                                     THEN "freed" ELSE x10[f]]
  <2>1. \A f : (\E i \in {j \in Cut!Slots : Read(j)} : x3[i].skb /\ x3[i].of = f)
               <=> \E i \in Cut!Slots : Read(i) /\ x3[i].skb /\ x3[i].of = f
    BY Zenon
  <2>2. x10' = [f \in CutFrames |->
                  IF \E i \in {j \in Cut!Slots : Read(j)} : x3[i].skb /\ x3[i].of = f
                  THEN "freed" ELSE x10[f]]
    BY DEF Cut!IntrTx, Cut!Clean
  <2>3. x10' = [f \in CutFrames |-> IF \E i \in Cut!Slots : Read(i) /\ x3[i].skb /\ x3[i].of = f
                                    THEN "freed" ELSE x10[f]]
    BY <2>1, <2>2, Zenon
  <2>4. x3' = [i \in Cut!Slots |-> IF Read(i) THEN [x3[i] EXCEPT !.skb = FALSE] ELSE x3[i]]
    BY DEF Cut!IntrTx
  <2> QED
    BY <2>3, <2>4 DEF Cut!IntrTx
<1>3. \A i \in Cut!Slots :
          Cut!Dist(x5, i) = IF Read(i) THEN CutCount + Cut!Dist(x2, i) - Cut!Dist(x2, x5)
                                             ELSE Cut!Dist(x2, i) - Cut!Dist(x2, x5)
  BY <1>1, CutFrom
<1>4. /\ Cut!Dist(x5, x5) = 0 /\ Cut!Dist(x5, x4) = Cut!Dist(x2, x4) - Cut!Dist(x2, x5)
      /\ Cut!Dist(x5, x1) = Cut!Dist(x2, x1) - Cut!Dist(x2, x5)
  BY <1>1, <1>3
<1>5. ASSUME NEW i \in Cut!Slots
      PROVE  /\ Cut!Pos(i)' = Cut!Dist(x5, i) /\ Cut!Pos(i)' >= 0
             /\ Cut!Unread(i) => Cut!Pos(i)' = Cut!Pos(i)
             /\ Cut!Dist(x5, i) < Cut!Dist(x5, x1) => Cut!Unread(i)
             /\ Cut!Unread(i)' <=> Cut!Unread(i)
             /\ Cut!Unread(i) => ~Read(i)
  <2>1. Cut!Pos(i)' = Cut!Dist(x5, i)
    <3>1. Cut!Dist(x5, i) \in Int
      BY <1>1, <1>3
    <3> QED
      BY <1>2, <1>4, <3>1 DEF Cut!Pos
  <2> QED
    BY <1>1, <1>2, <1>3, <1>4, <2>1 DEF Cut!Unread
<1>6. /\ x3' \in [Cut!Slots -> Cut!Descs]
      /\ \A i \in Cut!Slots : /\ ~Read(i) => x3'[i] = x3[i]
                              /\ x3'[i].of = x3[i].of /\ (x3'[i].skb => x3[i].skb)
                              /\ Read(i) => ~x3'[i].skb
  <2>1. x3 \in [Cut!Slots -> Cut!Descs]
    BY DEF Cut!IInv, Cut!TypeOK
  <2>2. ASSUME NEW i \in Cut!Slots
        PROVE  /\ x3'[i] \in Cut!Descs /\ (~Read(i) => x3'[i] = x3[i])
               /\ x3'[i].of = x3[i].of /\ (x3'[i].skb => x3[i].skb)
               /\ Read(i) => ~x3'[i].skb
    <3>1. x3[i] \in Cut!Descs
      BY <2>1
    <3>2. CASE Read(i)
      <4>1. x3'[i] = [x3[i] EXCEPT !.skb = FALSE]
        BY <1>2, <3>2
      <4> QED
        BY <3>1, <3>2, <4>1 DEF Cut!Descs
    <3>3. CASE ~Read(i)
      <4>1. x3'[i] = x3[i]
        BY <1>2, <3>3
      <4> QED
        BY <3>1, <3>3, <4>1
    <3> QED
      BY <3>2, <3>3
  <2> QED
    BY <1>2, <2>2
<1> HIDE DEF Read
<1>7. /\ \A i \in Cut!Slots : x3[i].skb =>
             x3[i].of \in CutFrames /\ x10[x3[i].of] = "driver"
             /\ Cut!Dist(x2, i) < Cut!Dist(x2, x1)
      /\ \A i, j \in Cut!Slots : x3[i].skb /\ x3[j].skb /\ x3[i].of = x3[j].of => i = j
      /\ \A g \in CutFrames : x10[g] = "driver" =>
             \E i \in Cut!Slots : x3[i].skb /\ x3[i].of = g
  BY DEF Cut!IInv, Cut!SkbInv
<1>8. /\ x10' \in [CutFrames -> {"stack", "driver", "freed", "lost"}]
      /\ \A f \in CutFrames : x10[f] = "lost" => x10'[f] = "lost"
      /\ \A f \in CutFrames : x10'[f] = "driver" =>
             x10[f] = "driver" /\ ~\E i \in Cut!Slots : Read(i) /\ x3[i].skb /\ x3[i].of = f
      /\ \A f \in CutFrames : x10[f] = "driver"
             /\ (~\E i \in Cut!Slots : Read(i) /\ x3[i].skb /\ x3[i].of = f) => x10'[f] = "driver"
  <2>1. x10 \in [CutFrames -> {"stack", "driver", "freed", "lost"}]
    BY DEF Cut!IInv, Cut!TypeOK
  <2>2. \A f \in CutFrames : x10'[f] = IF \E i \in Cut!Slots : Read(i) /\ x3[i].skb /\ x3[i].of = f
                                       THEN "freed" ELSE x10[f]
    BY <1>2
  <2>3. \A f \in CutFrames : x10[f] = "lost" =>
             ~\E i \in Cut!Slots : Read(i) /\ x3[i].skb /\ x3[i].of = f
    BY <1>7
  <2>4. \A f \in CutFrames : x10'[f] \in {"stack", "driver", "freed", "lost"}
    BY <2>1, <2>2
  <2> QED
    BY <1>2, <2>1, <2>2, <2>3, <2>4
<1>9. Cut!TypeOK'
  BY <1>1, <1>2, <1>6, <1>8 DEF Cut!IInv, Cut!TypeOK
<1>10. Cut!OrderInv'
  BY <1>1, <1>2, <1>4 DEF Cut!OrderInv
<1>11. Cut!SkbInv'
  <2>1. ASSUME NEW i \in Cut!Slots, x3'[i].skb
        PROVE  /\ x3'[i].of \in CutFrames /\ x10'[x3'[i].of] = "driver"
               /\ Cut!Dist(x5, i) < Cut!Dist(x5, x1)
    <3>1. ~Read(i) /\ x3[i].skb /\ x3'[i].of = x3[i].of
      BY <1>6, <2>1
    <3>2. /\ x3[i].of \in CutFrames /\ x10[x3[i].of] = "driver"
          /\ Cut!Dist(x2, i) < Cut!Dist(x2, x1)
      BY <1>7, <3>1
    <3>3. ~\E j \in Cut!Slots : Read(j) /\ x3[j].skb /\ x3[j].of = x3[i].of
      BY <1>7, <3>1
    <3>4. x10'[x3[i].of] = "driver"
      BY <1>8, <3>2, <3>3
    <3>5. Cut!Dist(x5, i) < Cut!Dist(x5, x1)
      BY <1>1, <1>3, <1>4, <3>1, <3>2
    <3> QED
      BY <3>1, <3>2, <3>4, <3>5
  <2>2. \A i, j \in Cut!Slots : x3'[i].skb /\ x3'[j].skb /\ x3'[i].of = x3'[j].of => i = j
    BY <1>6, <1>7
  <2>3. ASSUME NEW g \in CutFrames, x10'[g] = "driver"
        PROVE  \E i \in Cut!Slots : x3'[i].skb /\ x3'[i].of = g
    <3>1. x10[g] = "driver" /\ ~\E i \in Cut!Slots : Read(i) /\ x3[i].skb /\ x3[i].of = g
      BY <1>8, <2>3
    <3>2. PICK i \in Cut!Slots : x3[i].skb /\ x3[i].of = g
      BY <1>7, <3>1
    <3>3. ~Read(i)
      BY <3>1, <3>2
    <3> QED
      BY <1>6, <3>2, <3>3
  <2> QED
    BY <1>2, <2>1, <2>2, <2>3 DEF Cut!SkbInv
<1>12. \A f : f \in CutFrames \cup {"none"} /\ Cut!Junk(f) => Cut!Junk(f)'
  BY <1>8 DEF Cut!Junk
<1>13. \A f, p : Cut!Served(f, p) => Cut!Served(f, p)'
  <2> SUFFICES ASSUME NEW f, NEW p, NEW e \in Cut!Slots, Cut!Covers(e, p), x3[e].of = f
               PROVE  Cut!Covers(e, p)' /\ x3'[e].of = f
    BY Zenon DEF Cut!Served
  <2>1. Cut!Unread(e)
    BY DEF Cut!Covers
  <2>2. Cut!Unread(e)' /\ Cut!Pos(e)' = Cut!Pos(e) /\ x3'[e] = x3[e]
    BY <1>5, <1>6, <2>1
  <2> QED
    BY <2>2, Zenon DEF Cut!Covers
<1>14. Cut!UnreadInv'
  <2> SUFFICES ASSUME NEW i \in Cut!Slots, Cut!Unread(i)'
               PROVE  (~x3[i].eop /\ Cut!Junk(x3[i].of))' \/ Cut!Served(x3[i].of, Cut!Pos(i))'
    BY DEF Cut!UnreadInv
  <2>1. Cut!Unread(i) /\ Cut!Pos(i)' = Cut!Pos(i) /\ x3'[i] = x3[i]
    BY <1>5, <1>6
  <2>2. (~x3[i].eop /\ Cut!Junk(x3[i].of)) \/ Cut!Served(x3[i].of, Cut!Pos(i))
    BY <2>1 DEF Cut!IInv, Cut!UnreadInv
  <2>3. x3[i].of \in CutFrames \cup {"none"}
    BY DEF Cut!IInv, Cut!TypeOK, Cut!Descs
  <2> QED
    BY <1>12, <1>13, <2>1, <2>2, <2>3, Zenon
<1>15. Cut!GatheredInv'
  <2>1. \A d \in 1 .. Len(x11) : x11[d][1] \in CutFrames \cup {"none"}
    BY ElementOfSeq DEF Cut!IInv, Cut!TypeOK, Cut!Packets
  <2> QED
    BY <1>2, <1>12, <1>13, <2>1, Zenon DEF Cut!IInv, Cut!GatheredInv
<1>16. Cut!WholeInv'
  <2> SUFFICES ASSUME NEW e \in Cut!Slots, x3'[e].skb, Cut!Unread(e)'
               PROVE  Cut!Intact(e)'
    BY DEF Cut!WholeInv
  <2>1. Cut!Unread(e) /\ Cut!Pos(e)' = Cut!Pos(e) /\ x3'[e] = x3[e] /\ Cut!Pos(e) \in Int
    BY <1>1, <1>5, <1>6
  <2>2. x3[e].skb /\ x3[e].of \in CutFrames /\ Cut!Intact(e)
    BY <1>7, <2>1 DEF Cut!IInv, Cut!WholeInv
  <2>3. PICK f : f = x3[e].of
    OBVIOUS
  <2>4. PICK whole : whole = Cut!Whole(f)
    OBVIOUS
  <2>5. whole = Cut!Whole(x3'[e].of) /\ f = x3'[e].of /\ Len(whole) \in Nat
    BY <2>1, <2>2, <2>3, <2>4, CutWhole
  <2>6. ASSUME NEW d \in 1 .. Len(whole)
        PROVE  LET p == Cut!Pos(e)' - Len(whole) + d
               IN  /\ p >= 0 => \A i \in Cut!Slots : Cut!Pos(i)' = p => x3'[i] = whole[d]
                   /\ p < 0 => /\ Len(x11') + p >= 0
                               /\ x11'[Len(x11') + 1 + p] = <<f, whole[d].part>>
    <3>1. PICK p \in Int : p = Cut!Pos(e) - Len(whole) + d /\ p <= Cut!Pos(e)
      BY <2>1, <2>5
    <3>2. /\ p >= 0 => \A i \in Cut!Slots : Cut!Pos(i) = p => x3[i] = whole[d]
          /\ p < 0 => /\ Len(x11) + p >= 0
                      /\ x11[Len(x11) + 1 + p] = <<f, whole[d].part>>
      BY <2>2, <2>3, <2>4, <3>1, Zenon DEF Cut!Intact
    <3>3. ASSUME NEW i \in Cut!Slots, Cut!Pos(i)' = p
          PROVE  Cut!Pos(i) = p /\ x3'[i] = x3[i]
      <4>1. Cut!Dist(x5, i) <= Cut!Dist(x5, e) /\ Cut!Dist(x5, e) < Cut!Dist(x5, x1)
        <5>1. Cut!Dist(x5, e) = Cut!Pos(e) /\ Cut!Dist(x5, i) = p
          BY <1>5, <2>1, <3>3
        <5>2. Cut!Pos(e) < Cut!Dist(x5, x1)
          BY <1>1, <1>4, <2>1 DEF Cut!Unread
        <5> QED
          BY <3>1, <5>1, <5>2
      <4>2. Cut!Dist(x5, i) < Cut!Dist(x5, x1)
        BY <1>1, <1>3, <1>4, <4>1, SMTT(30)
      <4>3. Cut!Unread(i)
        BY <1>5, <4>2
      <4> QED
        BY <1>5, <1>6, <3>3, <4>3
    <3>4. p >= 0 => \A i \in Cut!Slots : Cut!Pos(i)' = p => x3'[i] = whole[d]
      BY <3>2, <3>3
    <3> QED
      BY <1>2, <2>1, <3>1, <3>2, <3>4, Zenon
  <2> QED
    BY <2>5, <2>6, Zenon DEF Cut!Intact
<1>17. Cut!FrameEndsPacket'
  <2>1. \A d \in 1 .. Len(x12) : x12[d][1] \in CutFrames \cup {"none"}
    BY ElementOfSeq DEF Cut!IInv, Cut!TypeOK, Cut!Packets
  <2> QED
    BY <1>2, <1>8, <2>1, CutPacket DEF Cut!IInv
<1> QED
  BY <1>9, <1>10, <1>11, <1>14, <1>15, <1>16, <1>17 DEF Cut!IInv

\* atl1c_reset_mac and atl1c_clean_tx_ring leave nothing in the ring.
LEMMA CutReset ==
  ASSUME Cut!IInv, Cut!ResetRing, x12' = x12
  PROVE  Cut!IInv'
<1>1. 0 \in Cut!Slots
  BY CutPartAssumption DEF Cut!CutAssumption, Cut!Slots
<1>2. /\ \A i \in Cut!Slots : x3[i].skb =>
             x3[i].of \in CutFrames /\ x10[x3[i].of] = "driver"
      /\ \A g \in CutFrames : x10[g] = "driver" =>
             \E i \in Cut!Slots : x3[i].skb /\ x3[i].of = g
  BY DEF Cut!IInv, Cut!SkbInv
<1>3. \A f \in CutFrames : x10'[f] = IF \E i \in Cut!Slots : x3[i].skb /\ x3[i].of = f
                                     THEN "freed" ELSE x10[f]
  BY DEF Cut!ResetRing, Cut!Clean
<1>4. /\ x10' \in [CutFrames -> {"stack", "driver", "freed", "lost"}]
      /\ \A f \in CutFrames : x10[f] = "lost" => x10'[f] = "lost"
      /\ \A f \in CutFrames : x10'[f] # "driver"
  <2>1. x10 \in [CutFrames -> {"stack", "driver", "freed", "lost"}]
    BY DEF Cut!IInv, Cut!TypeOK
  <2>2. \A f \in CutFrames : x10'[f] \in {"stack", "driver", "freed", "lost"}
    BY <1>3, <2>1
  <2>3. x10' = [f \in CutFrames |-> x10'[f]]
    BY DEF Cut!ResetRing, Cut!Clean
  <2>4. x10' \in [CutFrames -> {"stack", "driver", "freed", "lost"}]
    BY <2>2, <2>3
  <2> QED
    BY <1>2, <1>3, <2>4
<1>5. Cut!Zero \in Cut!Descs /\ ~Cut!Zero.skb
  BY DEF Cut!Zero, Cut!Descs, Cut!Ext
<1>6. x3' = [i \in Cut!Slots |-> Cut!Zero] /\ x1' = 0 /\ x2' = 0 /\ x4' = 0 /\ x5' = 0
      /\ x11' = <<>>
  BY DEF Cut!ResetRing
<1>7. Cut!Dist(0, 0) = 0 /\ \A i \in Cut!Slots : Cut!Dist(0, i) >= 0
  BY <1>1, CutDist
<1>8. Cut!TypeOK'
  BY <1>1, <1>4, <1>5, <1>6 DEF Cut!IInv, Cut!TypeOK, Cut!Packets
<1>9. Cut!OrderInv'
  BY <1>6, <1>7 DEF Cut!OrderInv
<1>10. \A i \in Cut!Slots : ~x3'[i].skb
  BY <1>5, <1>6
<1>11. Cut!SkbInv'
  BY <1>4, <1>10 DEF Cut!SkbInv
<1>12. \A i \in Cut!Slots : ~Cut!Unread(i)'
  BY <1>1, <1>6, <1>7, CutDist DEF Cut!Unread
<1>13. Cut!UnreadInv' /\ Cut!WholeInv' /\ Cut!GatheredInv'
  BY <1>6, <1>12 DEF Cut!UnreadInv, Cut!WholeInv, Cut!GatheredInv
<1>14. Cut!FrameEndsPacket'
  BY <1>4, CutPacket DEF Cut!IInv
<1> QED
  BY <1>8, <1>9, <1>11, <1>13, <1>14 DEF Cut!IInv

LEMMA CutInit ==
  ASSUME Cut!Init
  PROVE  Cut!IInv
<1>1. 0 \in Cut!Slots
  BY CutPartAssumption DEF Cut!CutAssumption, Cut!Slots
<1>2. Cut!Zero \in Cut!Descs /\ ~Cut!Zero.skb
  BY DEF Cut!Zero, Cut!Descs, Cut!Ext
<1>3. Cut!Dist(0, 0) = 0 /\ \A i \in Cut!Slots : Cut!Dist(0, i) >= 0
  BY <1>1, CutDist
<1>4. Cut!TypeOK
  BY <1>1, <1>2 DEF Cut!Init, Cut!TypeOK, Cut!Packets
<1>5. Cut!OrderInv
  BY <1>3 DEF Cut!Init, Cut!OrderInv
<1>6. \A i \in Cut!Slots : ~x3[i].skb
  BY <1>2 DEF Cut!Init
<1>7. Cut!SkbInv
  BY <1>6 DEF Cut!Init, Cut!SkbInv
<1>8. \A i \in Cut!Slots : ~Cut!Unread(i)
  BY <1>1, <1>3, CutDist DEF Cut!Init, Cut!Unread
<1>9. Cut!UnreadInv /\ Cut!WholeInv /\ Cut!GatheredInv /\ Cut!FrameEndsPacket
  BY <1>8 DEF Cut!Init, Cut!UnreadInv, Cut!WholeInv, Cut!GatheredInv, Cut!FrameEndsPacket
<1> QED
  BY <1>4, <1>5, <1>7, <1>9 DEF Cut!IInv

LEMMA CutXmitRefused ==
  ASSUME Cut!IInv, NEW f \in CutFrames, Cut!XmitRefused(f)
  PROVE  Cut!IInv'
<1>1. PICK descs : descs = <<Cut!Zero>>
  OBVIOUS
<1>2. Cut!Zero \in Cut!Descs /\ ~Cut!Zero.eop /\ ~Cut!Zero.skb /\ Cut!Zero.of = "none"
  BY DEF Cut!Zero, Cut!Descs, Cut!Ext
<1>3. /\ descs \in Seq(Cut!Descs) /\ Len(descs) = 1
      /\ \A d \in 1 .. Len(descs) : ~descs[d].eop /\ ~descs[d].skb /\ descs[d].of = "none"
  BY <1>1, <1>2
<1>4. Cut!Put(descs) /\ x4' = x4 /\ x10[f] = "stack" /\ x10' = [x10 EXCEPT ![f] = "freed"]
      /\ UNCHANGED <<x2, x5, x11, x12>>
  BY <1>1 DEF Cut!XmitRefused, Cut!XmitRoom
<1>5. Cut!Avail >= Len(descs)
  <2>1. Cut!Avail >= Len(Cut!Whole(f)) /\ Len(Cut!Whole(f)) \in Nat /\ Len(Cut!Whole(f)) >= 1
    BY CutWhole DEF Cut!XmitRefused, Cut!XmitRoom
  <2>2. Cut!Avail \in Int
    BY CutAvail, CutNumbers DEF Cut!IInv
  <2> QED
    BY <1>3, <2>1, <2>2
<1> QED
  BY <1>3, <1>4, <1>5, CutLeave

LEMMA CutXmitQueue ==
  ASSUME Cut!IInv, NEW f \in CutFrames, Cut!XmitQueue(f)
  PROVE  Cut!IInv'
<1>1. PICK k \in 0 .. CutPieces[f] :
        /\ Cut!Put(Cut!TxMap(f, k))
        /\ x10' = [x10 EXCEPT ![f] = IF k = CutPieces[f] THEN "driver" ELSE "lost"]
  BY DEF Cut!XmitQueue
<1>2. x10[f] = "stack" /\ x4' = x1' /\ Cut!Avail >= Len(Cut!Whole(f))
      /\ UNCHANGED <<x2, x5, x11, x12>>
  BY DEF Cut!XmitQueue, Cut!XmitRoom
<1>3. CASE k = CutPieces[f]
  BY <1>1, <1>2, <1>3, CutQueued DEF Cut!TxMap
<1>4. CASE k # CutPieces[f]
  <2>1. PICK descs : descs = Cut!TxMap(f, k)
    OBVIOUS
  <2>2. /\ descs \in Seq(Cut!Descs) /\ Len(descs) \in 1 .. Len(Cut!Whole(f))
        /\ \A d \in 1 .. Len(descs) : descs[d].of = f /\ ~descs[d].eop /\ ~descs[d].skb
    BY <1>4, <2>1, CutFailed
  <2>3. Cut!Avail >= Len(descs)
    BY <1>2, <2>2, CutAvail, CutNumbers, CutWhole DEF Cut!IInv
  <2> QED
    BY <1>1, <1>2, <1>4, <2>1, <2>2, <2>3, CutLeave
<1> QED
  BY <1>3, <1>4

LEMMA CutNext ==
  ASSUME Cut!IInv, Cut!Next
  PROVE  Cut!IInv'
<1>1. ASSUME NEW f \in CutFrames, Cut!XmitDown(f)
      PROVE  Cut!IInv'
  BY <1>1, CutXmitDown
<1>2. ASSUME NEW f \in CutFrames, Cut!XmitBusy(f)
      PROVE  Cut!IInv'
  BY <1>2, CutIdle DEF Cut!XmitBusy
<1>3. ASSUME NEW f \in CutFrames, Cut!XmitRefused(f)
      PROVE  Cut!IInv'
  BY <1>3, CutXmitRefused
<1>4. ASSUME NEW f \in CutFrames, Cut!XmitQueue(f)
      PROVE  Cut!IInv'
  BY <1>4, CutXmitQueue
<1>5. CASE Cut!HwRead
  BY <1>5, CutReadOn, CutReadEnd
<1>6. CASE Cut!IntrTx
  BY <1>6, CutIntrTx
<1>7. CASE Cut!LinkDown
  BY <1>7, CutReset DEF Cut!LinkDown
<1>8. CASE Cut!LinkUp
  BY <1>8, CutIdle DEF Cut!LinkUp
<1>9. CASE Cut!Down
  BY <1>9, CutReset DEF Cut!Down
<1>10. CASE Cut!Up
  BY <1>10, CutIdle DEF Cut!Up
<1> QED
  BY <1>1, <1>2, <1>3, <1>4, <1>5, <1>6, <1>7, <1>8, <1>9, <1>10 DEF Cut!Next

LEMMA CutServed ==
  ASSUME Cut!IInv
  PROVE  Cut!FrameEndsPacket /\ Cut!FramesHeldWhileSent
<1>1. ASSUME NEW i \in Cut!Slots, Cut!Dist(x5, i) < Cut!Dist(x5, x4)
      PROVE  x3[i].of = "none" \/ x10[x3[i].of] \in {"driver", "lost"}
  <2>1. /\ x1 \in Cut!Slots /\ x2 \in Cut!Slots /\ x4 \in Cut!Slots /\ x5 \in Cut!Slots
        /\ CutCount \in Nat /\ Cut!Dist(x2, x5) \in Nat /\ Cut!Dist(x2, x4) \in Nat
        /\ Cut!Dist(x2, x1) \in Nat
        /\ Cut!Dist(x2, x5) <= Cut!Dist(x2, x4) /\ Cut!Dist(x2, x4) <= Cut!Dist(x2, x1)
        /\ Cut!Dist(x2, x1) < CutCount
        /\ Cut!Dist(x2, i) \in Nat /\ Cut!Dist(x2, i) < CutCount
        /\ Cut!Pos(i) = Cut!Dist(x2, i) - Cut!Dist(x2, x5)
    BY CutNumbers DEF Cut!IInv
  <2>2. Cut!Dist(x5, i) = IF Cut!Dist(x2, x5) <= Cut!Dist(x2, i)
                          THEN Cut!Dist(x2, i) - Cut!Dist(x2, x5)
                          ELSE CutCount + Cut!Dist(x2, i) - Cut!Dist(x2, x5)
    BY <2>1, CutFrom
  <2>3. Cut!Dist(x5, x4) = Cut!Dist(x2, x4) - Cut!Dist(x2, x5)
    BY <2>1, CutFrom
  <2>4. Cut!Unread(i)
    BY <1>1, <2>1, <2>2, <2>3 DEF Cut!Unread
  <2>5. Cut!Junk(x3[i].of) \/ \E e \in Cut!Slots : x3[e].skb /\ x3[e].of = x3[i].of
    BY <2>4, Zenon DEF Cut!IInv, Cut!UnreadInv, Cut!Served, Cut!Covers
  <2> QED
    BY <2>5 DEF Cut!IInv, Cut!SkbInv, Cut!Junk
<1> QED
  BY <1>1 DEF Cut!IInv, Cut!SkbInv, Cut!FramesHeldWhileSent

(***************************************************************************)
(* The small drivers together                                              *)
(***************************************************************************)

\* While another part runs, a part stays as it is.
LEMMA HidIdle ==
  ASSUME Hid!IInv, UNCHANGED Hid!vars
  PROVE  Hid!IInv'
BY DEF Hid!vars, Hid!IInv, Hid!TypeOK, Hid!UsersInv, Hid!UrbInv, Hid!HasUser,
   Hid!OnlyUserIsServed

LEMMA HookIdle ==
  ASSUME Hook!IInv, UNCHANGED Hook!vars
  PROVE  Hook!IInv'
<1>1. Hook!TypeOK' /\ Hook!WpInv'
  BY Zenon DEF Hook!vars, Hook!IInv, Hook!TypeOK, Hook!WpInv
<1>2. Hook!TableInv' /\ Hook!CallInv' /\ Hook!CrashesOnlyIfMisused'
  BY Zenon DEF Hook!vars, Hook!IInv, Hook!TableInv, Hook!CallInv, Hook!CrashesOnlyIfMisused,
     Hook!Hooked
<1> QED
  BY <1>1, <1>2 DEF Hook!IInv

LEMMA ChrIdle ==
  ASSUME Chr!IInv, UNCHANGED Chr!vars
  PROVE  Chr!IInv'
<1>1. UNCHANGED <<x1, x2, x3, x4, x5, x6, x7, x8, x9, x11>>
  BY DEF Chr!vars
<1>2. x11' \in BOOLEAN /\ (x11' => x11)
  BY <1>1, Zenon DEF Chr!IInv, Chr!TypeOK
<1>3. Chr!CrashInv'
  BY <1>1, <1>2 DEF Chr!IInv, Chr!CrashInv, Chr!IsMemory
<1> QED
  BY <1>1, <1>2, <1>3, ChrKept DEF Chr!IInv

\* The mouse's URB runs while it has users and not after; cat reads what echo
\* wrote, until one of the modules is removed under it, flooded, or without its
\* buffer, which is all that crashes them; a call of the hooked system calls
\* finds the original one, and the table is put back under protection; the
\* cut-down atl1c ends its packets and holds their frames until they are on the
\* wire: whatever the order of opening, closing, loading, unloading, mapping
\* that fails and links that go (hid-core.c, memory.c, parlelport.c, procfs.c,
\* toplel.c of 4-hooks, and atl1c_main.c of 5-atl1c).
THEOREM SmallDriversServeAlways == Spec => []SmallDriversServe
<1> DEFINE Inv == /\ which = "hid" => Hid!IInv
                  /\ which = "chrdev" => Chr!IInv
                  /\ which = "hooks" => Hook!IInv
                  /\ which = "cut" => Cut!IInv
<1>1. ASSUME Init PROVE Inv
  BY <1>1, HidInit, ChrInit, HookInit, CutInit DEF Init
<1>2. ASSUME Inv, [Next]_vars PROVE Inv'
  <2>1. CASE which = "hid" /\ Next
    BY <1>2, <2>1, HidNext DEF Next
  <2>2. CASE which = "chrdev" /\ Next
    BY <1>2, <2>2, ChrNext DEF Next
  <2>3. CASE which = "hooks" /\ Next
    BY <1>2, <2>3, HookNext DEF Next
  <2>4. CASE which = "cut" /\ Next
    BY <1>2, <2>4, CutNext DEF Next
  <2>5. CASE which \notin {"hid", "chrdev", "hooks", "cut"} /\ Next
    BY <2>5 DEF Next
  <2>6. CASE UNCHANGED vars
    <3>1. /\ which' = which /\ UNCHANGED Hid!vars /\ UNCHANGED Chr!vars /\ UNCHANGED Hook!vars
          /\ UNCHANGED <<x1, x2, x3, x4, x5, x10, x11, x12>>
      BY <2>6 DEF vars, rest8, rest9, rest10, rest11, rest13, rest15, Hid!vars, Chr!vars,
         Hook!vars
    <3> QED
      BY <1>2, <3>1, HidIdle, ChrIdle, HookIdle, CutIdle
  <2> QED
    BY <1>2, <2>1, <2>2, <2>3, <2>4, <2>5, <2>6
<1>3. ASSUME Inv PROVE SmallDriversServe
  BY <1>3, HidServed, ChrServed, HookServed, CutServed DEF SmallDriversServe
<1> QED
  BY <1>1, <1>2, <1>3, PTL DEF Spec

=============================================================================
