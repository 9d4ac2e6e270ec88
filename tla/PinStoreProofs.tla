--------------------------- MODULE PinStoreProofs ---------------------------
(***************************************************************************)
(* One run of a tool at a time, killed wherever it may be: the live pin    *)
(* file is always whole, and the store implements the trust-on-first-use   *)
(* register, for every set of keys and of inodes.                          *)
(***************************************************************************)
EXTENDS PinStore, TLAPS

(* No two runs of the tool are active at the same time.                    *)
OneRun == \A p, q \in Procs : p = q

Saving == {"open", "header", "pubkey", "fsync", "rename"}

(* The sidecar is never the live file, so no write reaches the live file.  *)
Apart == sidecar # NoInode => sidecar # live

(* How far the file behind the sidecar name is written at each step of     *)
(* file_save.                                                              *)
Progress(p) ==
    /\ pc[p] \in {"header", "pubkey", "fsync"} => fd[p] = sidecar
    /\ pc[p] \in {"header", "pubkey", "fsync", "rename"} => sidecar \in Inodes
    /\ pc[p] \in {"pubkey", "fsync", "rename"} => head[sidecar] = "v1"
    /\ pc[p] \in {"fsync", "rename"} => body[sidecar] = key[p]

(* A run that saves found no pin, and nobody else has stored one since.    *)
FirstUse(p) ==
    /\ pc[p] \in Saving => key[p] \in Keys /\ file_load = NoKey
    /\ pc[p] = "handshake" /\ key[p] = NoKey => file_load = NoKey

IInv ==
    /\ TypeOK /\ LiveWhole /\ Apart
    /\ \A p \in Procs : Progress(p) /\ FirstUse(p)

-----------------------------------------------------------------------------

(* The type invariant needs nothing else.                                  *)
LEMMA NextTypeOK == TypeOK /\ [Next]_vars => TypeOK'
  <1> SUFFICES ASSUME TypeOK, [Next]_vars PROVE TypeOK'
    OBVIOUS
  <1> USE DEF TypeOK, Steps
  <1>1. file_load \in Keys \cup {NoKey}
    BY DEF file_load
  <1>2. ASSUME NEW p \in Procs, Load(p) PROVE TypeOK'
    BY <1>1, <1>2 DEF Load, Goto, fsVars
  <1>3. ASSUME NEW p \in Procs, NEW k \in Keys, Handshake(p, k) PROVE TypeOK'
    BY <1>3 DEF Handshake, Exit, Goto, fsVars
  <1>4. ASSUME NEW p \in Procs, OpenSidecar(p) PROVE TypeOK'
    BY <1>4 DEF OpenSidecar, Goto
  <1>5. ASSUME NEW p \in Procs, WriteHeader(p) \/ WritePubkey(p) PROVE TypeOK'
    BY <1>5 DEF WriteHeader, WritePubkey, Goto
  <1>6. ASSUME NEW p \in Procs, SyncAndClose(p) \/ Rename(p) PROVE TypeOK'
    BY <1>6 DEF SyncAndClose, Rename, Exit, Goto, fsVars
  <1>7. ASSUME NEW p \in Procs, SaveFails(p) \/ Killed(p) PROVE TypeOK'
    BY <1>7 DEF SaveFails, Killed, Exit, fsVars
  <1>8. CASE ResetPin
    BY <1>8 DEF ResetPin
  <1>9. CASE UNCHANGED vars
    BY <1>9 DEF vars
  <1> QED
    BY <1>2, <1>3, <1>4, <1>5, <1>6, <1>7, <1>8, <1>9 DEF Next

(* The invariant holds initially.                                          *)
LEMMA InitIInv == Init => IInv
    BY PinStoreAssumption
    DEF Init, IInv, TypeOK, Steps, LiveWhole, Apart, Progress, FirstUse,
        Saving, file_load

(* With one run, every step preserves it.                                  *)
LEMMA NextIInv ==
    ASSUME OneRun
    PROVE  IInv /\ [Next]_vars => IInv'
  <1> SUFFICES ASSUME IInv, [Next]_vars PROVE IInv'
    OBVIOUS
  <1>1. TypeOK'
    BY NextTypeOK DEF IInv
  <1> SUFFICES LiveWhole' /\ Apart' /\ \A p \in Procs : (Progress(p) /\ FirstUse(p))'
    BY <1>1 DEF IInv
  <1>2. ASSUME NEW p \in Procs, Load(p)
        PROVE  LiveWhole' /\ Apart' /\ (Progress(p) /\ FirstUse(p))'
    BY <1>2, PinStoreAssumption
    DEF IInv, TypeOK, Load, Goto, fsVars, LiveWhole, Apart, Progress, FirstUse,
        Saving, file_load
  <1>3. ASSUME NEW p \in Procs, NEW k \in Keys, Handshake(p, k)
        PROVE  LiveWhole' /\ Apart' /\ (Progress(p) /\ FirstUse(p))'
    BY <1>3, PinStoreAssumption
    DEF IInv, TypeOK, Handshake, Exit, Goto, fsVars, LiveWhole, Apart,
        Progress, FirstUse, Saving, file_load
  <1>4. ASSUME NEW p \in Procs, OpenSidecar(p)
        PROVE  LiveWhole' /\ Apart' /\ (Progress(p) /\ FirstUse(p))'
    BY <1>4, PinStoreAssumption
    DEF IInv, TypeOK, OpenSidecar, Free, Goto, LiveWhole, Apart, Progress,
        FirstUse, Saving, file_load
  <1>5. ASSUME NEW p \in Procs, WriteHeader(p)
        PROVE  LiveWhole' /\ Apart' /\ (Progress(p) /\ FirstUse(p))'
    BY <1>5, PinStoreAssumption
    DEF IInv, TypeOK, WriteHeader, Goto, LiveWhole, Apart, Progress, FirstUse,
        Saving, file_load
  <1>6. ASSUME NEW p \in Procs, WritePubkey(p)
        PROVE  LiveWhole' /\ Apart' /\ (Progress(p) /\ FirstUse(p))'
    BY <1>6, PinStoreAssumption
    DEF IInv, TypeOK, WritePubkey, Goto, LiveWhole, Apart, Progress, FirstUse,
        Saving, file_load
  <1>7. ASSUME NEW p \in Procs, SyncAndClose(p)
        PROVE  LiveWhole' /\ Apart' /\ (Progress(p) /\ FirstUse(p))'
    BY <1>7, PinStoreAssumption
    DEF IInv, TypeOK, SyncAndClose, Goto, fsVars, LiveWhole, Apart, Progress,
        FirstUse, Saving, file_load
  <1>8. ASSUME NEW p \in Procs, Rename(p) \/ SaveFails(p) \/ Killed(p)
        PROVE  LiveWhole' /\ Apart' /\ (Progress(p) /\ FirstUse(p))'
    <2>1. pc'[p] = "start"
      BY <1>8 DEF IInv, TypeOK, Rename, SaveFails, Killed, Exit
    <2>2. (Progress(p) /\ FirstUse(p))'
      BY <2>1 DEF Progress, FirstUse, Saving
    <2>3. LiveWhole' /\ Apart'
      BY <1>8, PinStoreAssumption
      DEF IInv, TypeOK, Rename, SaveFails, Killed, fsVars, LiveWhole, Apart,
          Progress, FirstUse, Saving
    <2> QED
      BY <2>2, <2>3
  <1>9. CASE ResetPin
    <2>1. file_load' = NoKey
      BY <1>9 DEF ResetPin, file_load
    <2>2. ASSUME NEW p \in Procs PROVE (Progress(p) /\ FirstUse(p))'
      BY <1>9, <2>1 DEF IInv, ResetPin, Progress, FirstUse
    <2> QED
      BY <1>9, <2>2, PinStoreAssumption DEF IInv, ResetPin, LiveWhole, Apart
  <1>10. CASE UNCHANGED vars
    BY <1>10
    DEF IInv, vars, LiveWhole, Apart, Progress, FirstUse, file_load
  <1>11. CASE \E p \in Procs :
                \/ Load(p) \/ OpenSidecar(p) \/ WriteHeader(p) \/ WritePubkey(p)
                \/ SyncAndClose(p) \/ Rename(p) \/ SaveFails(p) \/ Killed(p)
                \/ \E k \in Keys : Handshake(p, k)
    <2>1. PICK p \in Procs :
             LiveWhole' /\ Apart' /\ (Progress(p) /\ FirstUse(p))'
      BY <1>2, <1>3, <1>4, <1>5, <1>6, <1>7, <1>8, <1>11
    <2>2. \A q \in Procs : q = p
      BY DEF OneRun
    <2> QED
      BY <2>1, <2>2
  <1> QED
    BY <1>9, <1>10, <1>11 DEF Next

(* The inductive invariant holds throughout.                               *)
LEMMA Invariance ==
    ASSUME OneRun
    PROVE  Spec => []IInv
    BY InitIInv, NextIInv, PTL DEF Spec

(* The types of the runs and of the directory, for any number of runs.     *)
THEOREM TypeCorrect == Spec => []TypeOK
  <1>1. Init => TypeOK
    BY InitIInv DEF IInv
  <1> QED
    BY <1>1, NextTypeOK, PTL DEF Spec

(* However a run of file_save is cut short, the live file is whole.        *)
THEOREM LiveFileWhole ==
    ASSUME OneRun
    PROVE  Spec => []LiveWhole
    BY Invariance, PTL DEF IInv

(* A step of the file system is a step of the register, or none.           *)
LEMMA StepRefines ==
    ASSUME IInv, IInv', [Next]_vars
    PROVE  [Register!Next]_file_load
  <1>1. ASSUME NEW p \in Procs, Load(p) \/ SyncAndClose(p) \/ Killed(p)
        PROVE  file_load' = file_load
    BY <1>1 DEF Load, SyncAndClose, Killed, fsVars, file_load
  <1>2. ASSUME NEW p \in Procs, NEW k \in Keys, Handshake(p, k)
        PROVE  file_load' = file_load
    BY <1>2 DEF Handshake, fsVars, file_load
  <1>3. ASSUME NEW p \in Procs, SaveFails(p)
        PROVE  file_load' = file_load
    BY <1>3 DEF SaveFails, file_load
  <1>4. ASSUME NEW p \in Procs, OpenSidecar(p) \/ WriteHeader(p) \/ WritePubkey(p)
        PROVE  file_load' = file_load
    <2>1. file_load = NoKey
      BY <1>4 DEF IInv, FirstUse, Saving, OpenSidecar, WriteHeader, WritePubkey
    <2>2. pc'[p] \in Saving
      BY <1>4 DEF IInv, TypeOK, Goto, Saving, OpenSidecar, WriteHeader, WritePubkey
    <2>3. file_load' = NoKey
      BY <2>2 DEF IInv, FirstUse
    <2> QED
      BY <2>1, <2>3
  <1>5. ASSUME NEW p \in Procs, Rename(p)
        PROVE  \E k \in Keys : Register!Learn(k)
    <2>1. file_load = NoKey /\ key[p] \in Keys
      BY <1>5 DEF IInv, FirstUse, Saving, Rename
    <2>2. sidecar \in Inodes /\ head[sidecar] = "v1" /\ body[sidecar] = key[p]
      BY <1>5 DEF IInv, Progress, Rename
    <2>3. file_load' = key[p]
      BY <1>5, <2>1, <2>2, PinStoreAssumption DEF Rename, file_load
    <2> QED
      BY <2>1, <2>3 DEF Register!Learn
  <1>6. CASE ResetPin
    <2>1. file_load' = NoKey
      BY <1>6 DEF ResetPin, file_load
    <2> QED
      BY <2>1 DEF Register!Next, Register!Forget
  <1>7. CASE UNCHANGED vars
    BY <1>7 DEF vars, file_load
  <1> QED
    BY <1>1, <1>2, <1>3, <1>4, <1>5, <1>6, <1>7 DEF Next, Register!Next

(* The pin file implements the register of PinRegister: the key appears in *)
(* one step, is never replaced, and only a reset removes it.               *)
THEOREM StoreRefinesRegister ==
    ASSUME OneRun
    PROVE  Spec => RegisterSpec
  <1>1. Init => Register!Init
    BY DEF Init, Register!Init, file_load
  <1> QED
    BY <1>1, StepRefines, Invariance, PTL DEF Spec, RegisterSpec, Register!Spec
=============================================================================
