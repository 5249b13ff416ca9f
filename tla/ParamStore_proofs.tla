-------------------------- MODULE ParamStore_proofs --------------------------
(***************************************************************************)
(* Proofs about ParamStore, for every layout of the block in words, every    *)
(* set of values and every bound.  The first part is about two tasks inside  *)
(* STMFLASH_Write, the second about a client and key_task that leave each    *)
(* other alone.                                                             *)
(***************************************************************************)
EXTENDS ParamStore, TLAPS

Active == {"scan", "erase", "erased", "program", "programming", "programmed", "lock"}
InHal == {"erase", "erased", "programming", "programmed"}

(* The two locks and the error flag belong to a task that is where it uses them. *)
LocksHeld ==
    /\ \A t \in Tasks : hal = t <=> fpc[t] \in InHal
    /\ ~locked => \E t \in Tasks : fpc[t] \in Active
    /\ sr => \E t \in Tasks : fpc[t] \in {"erased", "programmed"}
    /\ \A t \in Tasks : fpc[t] = "erased" /\ sr => failed
    /\ \A t \in Tasks : fpc[t] \in InHal => addr[t] <= Len(Words)

(* Where one task is, where the other may be: key starts once the boot is over, and
   tcp leaves FLASH_CR locked, for key does not run meanwhile. *)
Control ==
    /\ \A t \in Tasks : fpc[t] # "idle" <=> pc[t] = "write"
    /\ pc["tcp"] \in {"boot_net", "boot_thread", "config"} => pc["key"] = "idle"
    /\ pc["tcp"] = "write" /\ then = "config" => pc["key"] = "idle"
    /\ pc["key"] = "copy" => addr["key"] <= Len(Words)
    /\ fpc["tcp"] = "done" => locked

BlankFrom(n) == \A w \in n .. Len(Words) : BlankWord(w)

(* The words the scan has passed are blank, and those not programmed yet. *)
Swept(t) ==
    \/ failed
    \/ /\ fpc[t] \in {"scan", "erase", "erased"} => \A w \in 1 .. addr[t] - 1 : BlankWord(w)
       /\ fpc[t] \in {"program", "programming"} /\ hal \in {"free", t} => BlankFrom(addr[t])
       /\ fpc[t] = "programmed" => BlankFrom(addr[t] + 1)

RaceInv ==
    /\ TypeOK
    /\ LocksHeld
    /\ Control
    /\ Swept("tcp")
    /\ TcpBlocked /\ ~locked => Swept("key")

-----------------------------------------------------------------------------
LEMMA WordsFit ==
    /\ Len(Words) \in Nat \ {0}
    /\ \A w \in 1 .. Len(Words) : Words[w] \subseteq Fields
BY WordsAssumption

LEMMA InitRace == Init => RaceInv
<1> SUFFICES ASSUME Init PROVE RaceInv
  OBVIOUS
<1> USE StoreAssumption, WordsFit, BoundAssumption DEF Init, FlashInit
<1>1. FlashTypeOK
  <2>1. flash \in [Fields -> Stored]
    BY DEF Blank, Stored
  <2>2. ram \in [Fields -> Stored] /\ data \in [Fields -> Stored]
    BY DEF Blank, Stored, DefaultList
  <2> QED
    <3>1. fpc \in [Tasks -> FlashLabels] /\ addr \in [Tasks -> 1 .. Len(Words) + 1]
      BY DEF FlashLabels
    <3> QED
      BY <2>1, <2>2, <3>1 DEF FlashTypeOK
<1>2. TypeOK
  <2>1. Erased \in Stored
    BY DEF Stored
  <2>2. netip \in Stored \X Stored /\ sensor \in Stored /\ frame \in [logo : Stored, header : Stored]
    BY <2>1
  <2>3. sets \in 0 .. MaxSets /\ cuts \in 0 .. MaxCuts /\ presses \in 0 .. MaxPresses
    OBVIOUS
  <2> QED
    BY <1>1, <2>2, <2>3 DEF TypeOK
<1>3. LocksHeld /\ Control /\ Swept("tcp") /\ Swept("key")
  BY DEF LocksHeld, Control, Swept, InHal, Active
<1> QED
  BY <1>2, <1>3 DEF RaceInv

(* One step of STMFLASH_Write, by either task. *)
LEMMA WriteAddress ==
    ASSUME FlashTypeOK, LocksHeld, NEW t \in Tasks, STMFLASH_Write(t)
    PROVE  addr' \in [Tasks -> 1 .. Len(Words) + 1]
<1>1. addr \in [Tasks -> 1 .. Len(Words) + 1] /\ Len(Words) \in Nat
  BY WordsFit DEF FlashTypeOK
<1>2. addr[t] \in 1 .. Len(Words) + 1
  BY <1>1
<1>3. CASE addr' = addr \/ addr' = [addr EXCEPT ![t] = 1]
  BY <1>1, <1>3
<1>4. CASE addr' = [addr EXCEPT ![t] = addr[t] + 1] /\ addr[t] <= Len(Words)
  BY <1>1, <1>2, <1>4
<1>5. Scan(t) => \/ addr' = [addr EXCEPT ![t] = 1]
                 \/ addr' = addr
                 \/ addr' = [addr EXCEPT ![t] = addr[t] + 1] /\ addr[t] <= Len(Words)
  BY <1>1, <1>2 DEF Scan, EndScan, Last
<1>6. ProgramReturns(t) => \/ addr' = addr
                           \/ addr' = [addr EXCEPT ![t] = addr[t] + 1] /\ addr[t] <= Len(Words)
  BY DEF ProgramReturns, LocksHeld, InHal
<1>7. EraseReturns(t) => addr' = addr \/ addr' = [addr EXCEPT ![t] = 1]
  <2>1. [addr EXCEPT ![t] = addr[t]] = addr
    BY <1>1
  <2> QED
    BY <2>1 DEF EraseReturns
<1> QED
  BY <1>3, <1>4, <1>5, <1>6, <1>7 DEF STMFLASH_Write, Erase, Programming, Unlock, Program, Lock

LEMMA WriteTypes ==
    ASSUME FlashTypeOK, LocksHeld, NEW t \in Tasks, STMFLASH_Write(t)
    PROVE  FlashTypeOK'
<1> SUFFICES /\ flash' \in [Fields -> Stored] /\ ram' \in [Fields -> Stored]
             /\ fpc' \in [Tasks -> FlashLabels]
             /\ hal' \in Tasks \cup {"free"} /\ locked' \in BOOLEAN /\ sr' \in BOOLEAN
             /\ data' \in [Fields -> Stored] /\ failed' \in BOOLEAN
  BY WriteAddress DEF FlashTypeOK
<1> USE DEF FlashTypeOK, FlashLabels, Goto
<1>1. CASE Erase(t)
  BY <1>1 DEF Erase, Blank, Stored
<1>2. CASE Programming(t)
  BY <1>2 DEF Programming, Programmed, Spoilt, Stored
<1>3. CASE Unlock(t) /\ failed' = failed
  BY <1>3 DEF Unlock
<1>4. CASE Scan(t) /\ failed' = failed
  BY <1>4 DEF Scan, EndScan, Last
<1>5. CASE EraseReturns(t) /\ failed' = failed
  BY <1>5 DEF EraseReturns
<1>6. CASE Program(t) /\ failed' = failed
  BY <1>6 DEF Program, Last
<1>7. CASE ProgramReturns(t) /\ failed' = failed
  BY <1>7 DEF ProgramReturns, LocksHeld, InHal
<1>8. CASE Lock(t) /\ failed' = failed
  BY <1>8 DEF Lock
<1> QED
  BY <1>1, <1>2, <1>3, <1>4, <1>5, <1>6, <1>7, <1>8 DEF STMFLASH_Write

LEMMA WriteLocks ==
    ASSUME FlashTypeOK, LocksHeld, NEW t \in Tasks, STMFLASH_Write(t)
    PROVE  LocksHeld'
<1> USE WordsFit, StoreAssumption
    DEF FlashTypeOK, Goto, LocksHeld, InHal, Active
<1>1. CASE Erase(t)
  BY <1>1 DEF Erase
<1>2. CASE Programming(t)
  BY <1>2 DEF Programming
<1>3. CASE Unlock(t) /\ failed' = failed
  BY <1>3 DEF Unlock
<1>4. CASE Scan(t) /\ failed' = failed
  BY <1>4 DEF Scan, EndScan, Last
<1>5. CASE EraseReturns(t) /\ failed' = failed
  BY <1>5 DEF EraseReturns
<1>6. CASE Program(t) /\ failed' = failed
  BY <1>6 DEF Program, Last
<1>7. CASE ProgramReturns(t) /\ failed' = failed
  BY <1>7 DEF ProgramReturns
<1>8. CASE Lock(t) /\ failed' = failed
  BY <1>8 DEF Lock
<1> QED
  BY <1>1, <1>2, <1>3, <1>4, <1>5, <1>6, <1>7, <1>8 DEF STMFLASH_Write

(* The task that takes a step keeps the words ahead of it blank: it erases what it
   finds, and programs each word once. *)
LEMMA WriteSweeps ==
    ASSUME FlashTypeOK, LocksHeld, NEW t \in Tasks, STMFLASH_Write(t), Swept(t)
    PROVE  Swept(t)'
<1> SUFFICES ASSUME ~failed, ~failed' PROVE Swept(t)'
  <2>1. failed => failed'
    BY DEF STMFLASH_Write, Erase, Programming
  <2> QED
    BY <2>1 DEF Swept
<1>0. /\ Len(Words) \in Nat /\ addr[t] \in 1 .. Len(Words) + 1
      /\ fpc \in [Tasks -> FlashLabels] /\ addr \in [Tasks -> 1 .. Len(Words) + 1]
  BY WordsFit DEF FlashTypeOK
<1> USE <1>0 DEF Goto
<1>1. CASE Erase(t)
  <2>1. fpc' = [fpc EXCEPT ![t] = "erased"] /\ addr' = addr /\ (flash' = flash \/ flash' = Blank)
    BY <1>1 DEF Erase
  <2>2. fpc'[t] = "erased" /\ fpc[t] = "erase"
    BY <1>1, <2>1 DEF Erase
  <2>3. \A w \in 1 .. addr[t] - 1 : BlankWord(w)
    BY <2>2 DEF Swept
  <2>4. \A w \in 1 .. addr[t] - 1 : BlankWord(w)'
    BY <2>1, <2>3, WordsFit DEF BlankWord, Blank
  <2> QED
    BY <2>1, <2>2, <2>4 DEF Swept
<1>2. CASE Programming(t)
  <2>1. /\ fpc' = [fpc EXCEPT ![t] = "programmed"] /\ addr' = addr
        /\ flash' = flash \/ flash' = Programmed(addr[t], data)
    BY <1>2 DEF Programming
  <2>2. fpc'[t] = "programmed" /\ fpc[t] = "programming" /\ hal = t
    BY <1>2, <2>1 DEF Programming, LocksHeld, InHal
  <2>3. BlankFrom(addr[t])
    BY <2>2 DEF Swept
  <2>4. ASSUME NEW w \in addr[t] + 1 .. Len(Words), NEW f \in Words[w]
        PROVE  flash'[f] = Erased
    <3>1. flash[f] = Erased /\ f \in Fields
      BY <2>3, WordsFit DEF BlankFrom, BlankWord
    <3>2. addr[t] \in 1 .. Len(Words) /\ w \in 1 .. Len(Words) /\ w # addr[t]
      BY <2>4
    <3>3. f \notin Words[addr[t]]
      BY <3>1, <3>2, WordsAssumption
    <3> QED
      BY <2>1, <3>1, <3>3 DEF Programmed
  <2>5. BlankFrom(addr[t] + 1)'
    BY <2>1, <2>4 DEF BlankFrom, BlankWord
  <2> QED
    BY <2>1, <2>2, <2>5 DEF Swept
<1>3. CASE Unlock(t) /\ failed' = failed
  BY <1>3 DEF Unlock, Swept
<1>4. CASE Scan(t) /\ failed' = failed
  <2>0. fpc[t] = "scan" /\ flash' = flash /\ hal # t
    BY <1>4 DEF Scan, LocksHeld, InHal
  <2>1. \A w \in 1 .. addr[t] - 1 : BlankWord(w)
    BY <2>0 DEF Swept
  <2>2. CASE Last(t) /\ EndScan(t)
    BY <2>0, <2>1, <2>2 DEF Last, EndScan, Swept, BlankFrom, BlankWord
  <2>3. CASE ~Last(t) /\ BlankWord(addr[t]) /\ addr' = [addr EXCEPT ![t] = @ + 1] /\ fpc' = fpc
    BY <2>0, <2>1, <2>3 DEF Swept, BlankWord
  <2>4. CASE Goto(t, "erase") /\ addr' = addr
    BY <2>0, <2>1, <2>4 DEF Swept, BlankWord
  <2>5. CASE hal # "free" /\ EndScan(t) /\ hal' = hal
    BY <2>0, <2>5 DEF EndScan, Swept
  <2> QED
    BY <1>4, <2>2, <2>3, <2>4, <2>5 DEF Scan
<1>5. CASE EraseReturns(t) /\ failed' = failed
  <2>1. fpc[t] = "erased" /\ ~sr
    BY <1>5 DEF EraseReturns, LocksHeld
  <2> QED
    BY <1>5, <2>1 DEF EraseReturns, Swept, BlankWord
<1>6. CASE Program(t) /\ failed' = failed
  BY <1>6 DEF Program, Last, Swept, LocksHeld, InHal, BlankFrom, BlankWord
<1>7. CASE ProgramReturns(t) /\ failed' = failed
  BY <1>7 DEF ProgramReturns, Swept, BlankFrom, BlankWord
<1>8. CASE Lock(t) /\ failed' = failed
  BY <1>8 DEF Lock, Swept
<1> QED
  BY <1>1, <1>2, <1>3, <1>4, <1>5, <1>6, <1>7, <1>8 DEF STMFLASH_Write

LEMMA WriteRace ==
    ASSUME RaceInv, NEW t \in Tasks, STMFLASH_Write(t), t = "key" => TcpBlocked,
           UNCHANGED <<paramVars, countVars>>
    PROVE  RaceInv'
<1>0. TypeOK /\ FlashTypeOK /\ LocksHeld /\ Control /\ t \in {"tcp", "key"}
  BY StoreAssumption DEF RaceInv, TypeOK
<1>1. LocksHeld' /\ FlashTypeOK'
  BY <1>0, WriteLocks, WriteTypes
<1>2. TypeOK'
  BY <1>0, <1>1 DEF TypeOK, paramVars, countVars
<1>3. /\ \E l \in FlashLabels \ {"idle"} : fpc' = [fpc EXCEPT ![t] = l]
      /\ fpc[t] \notin {"idle", "done"}
      /\ \A u \in Tasks \ {t} : addr'[u] = addr[u]
  <2>1. fpc = [fpc EXCEPT ![t] = fpc[t]] /\ fpc[t] \in FlashLabels
    BY <1>0 DEF FlashTypeOK
  <2> QED
    BY <1>0, <2>1 DEF FlashTypeOK, FlashLabels, STMFLASH_Write, Erase, Programming, Unlock, Scan,
          EndScan, EraseReturns, Program, ProgramReturns, Lock, Goto
<1>4. pc' = pc /\ then' = then /\ pc[t] = "write"
  BY <1>0, <1>3 DEF paramVars, Control
<1>5. Control'
  <2>1. \A u \in Tasks : fpc'[u] # "idle" <=> pc'[u] = "write"
    BY <1>0, <1>3, <1>4 DEF Control, FlashTypeOK
  <2>2. pc'["key"] = "copy" => addr'["key"] <= Len(Words)
    BY <1>0, <1>3, <1>4, StoreAssumption DEF Control
  <2>3. fpc'["tcp"] = "done" => locked'
    <3>1. CASE t = "tcp"
      BY <1>0, <3>1 DEF FlashTypeOK, STMFLASH_Write, Erase, Programming, Unlock, Scan,
          EndScan, EraseReturns, Program, ProgramReturns, Lock, Goto
    <3>2. CASE t = "key"
      BY <1>0, <1>3, <3>2, StoreAssumption DEF FlashTypeOK, TcpBlocked, Control
    <3> QED
      BY <1>0, <3>1, <3>2
  <2> QED
    BY <1>0, <1>4, <2>1, <2>2, <2>3 DEF Control
<1>6. CASE t = "tcp"
  <2>1. ~TcpBlocked'
    BY <1>4, <1>6 DEF TcpBlocked
  <2>2. Swept("tcp")'
    BY <1>0, <1>6, WriteSweeps DEF RaceInv
  <2> QED
    BY <1>1, <1>2, <1>5, <2>1, <2>2 DEF RaceInv
<1>7. CASE t = "key"
  <2>1. fpc'["tcp"] = "idle"
    BY <1>0, <1>3, <1>7, StoreAssumption DEF FlashTypeOK, TcpBlocked, Control
  <2>2. Swept("tcp")'
    BY <2>1 DEF Swept
  <2>3. ~locked' => Swept("key")'
    <3>1. CASE ~locked
      BY <1>0, <1>7, <3>1, WriteSweeps DEF RaceInv
    <3>2. CASE locked /\ ~locked'
      <4>1. Unlock("key")
        BY <1>7, <3>2 DEF STMFLASH_Write, Erase, Programming, Scan, EraseReturns, Program,
            ProgramReturns, Lock
      <4> QED
        BY <1>0, <4>1, StoreAssumption DEF Unlock, Goto, FlashTypeOK, Swept
    <3> QED
      BY <3>1, <3>2
  <2> QED
    BY <1>1, <1>2, <1>5, <2>2, <2>3 DEF RaceInv
<1> QED
  BY <1>0, <1>6, <1>7

(* A restart leaves nobody inside STMFLASH_Write. *)
LEMMA RestartRace ==
    ASSUME RaceInv, Restart, flash' \in [Fields -> Stored],
           sets' \in 0 .. MaxSets, cuts' \in 0 .. MaxCuts, presses' \in 0 .. MaxPresses
    PROVE  RaceInv'
<1>1. Erased \in Stored /\ DefaultList \in [Fields -> Stored] /\ Blank \in [Fields -> Stored]
  BY StoreAssumption DEF Stored, DefaultList, Blank
<1>2. /\ fpc' = [t \in Tasks |-> "idle"] /\ addr' = [t \in Tasks |-> 1]
      /\ hal' = "free" /\ locked' = TRUE /\ sr' = FALSE
      /\ data' = Blank /\ failed' = FALSE /\ ram' = DefaultList
  BY DEF Restart, FlashReset
<1>3. fpc' \in [Tasks -> FlashLabels] /\ addr' \in [Tasks -> 1 .. Len(Words) + 1]
  BY <1>2, WordsFit DEF FlashLabels
<1>4. FlashTypeOK'
  BY <1>1, <1>2, <1>3 DEF FlashTypeOK
<1>5. /\ pc' = [t \in Tasks |-> IF t = "tcp" THEN "boot_net" ELSE "idle"]
      /\ netip' = <<Erased, Erased>> /\ sensor' = Erased /\ then' = "config"
      /\ frame' = [logo |-> Erased, header |-> Erased] /\ restored' = FALSE
  BY DEF Restart
<1>6. TypeOK'
  <2>1. frame' \in [logo : Stored, header : Stored] /\ netip' \in Stored \X Stored
    BY <1>1, <1>5
  <2> QED
    BY <1>1, <1>4, <1>5, <2>1, StoreAssumption DEF TypeOK
<1>7. LocksHeld' /\ Control' /\ Swept("tcp")' /\ Swept("key")'
  BY <1>2, <1>5, StoreAssumption DEF LocksHeld, Control, Swept, InHal
<1> QED
  BY <1>6, <1>7 DEF RaceInv

(* The steps of the two tasks outside STMFLASH_Write: the first enters it or leaves
   it, or does nothing to the flash. *)
LEMMA TcpRace ==
    ASSUME RaceInv, BootNet \/ BootThread \/ Config \/ SetCommand \/ TcpWritten
                    \/ FrameLogo \/ FrameHeader
    PROVE  RaceInv'
<1>0. TypeOK /\ FlashTypeOK /\ LocksHeld /\ Control
  BY DEF RaceInv, TypeOK
<1>1. /\ UNCHANGED <<flash, addr, hal, failed, locked, sr, data, cuts, presses>>
      /\ pc'["key"] = pc["key"] /\ DOMAIN pc' = Tasks
      /\ fpc'["key"] = fpc["key"]
      /\ \A t \in Tasks : fpc'[t] # fpc[t] => {fpc[t], fpc'[t]} \subseteq {"idle", "unlock", "done"}
  BY <1>0, StoreAssumption DEF BootNet, BootThread, Config, SetCommand, TcpWritten, FrameLogo,
       FrameHeader, CallWrite, Enter, flashVars, countVars, TypeOK, FlashTypeOK, Control
<1>2. ram' \in [Fields -> Stored]
  <2>1. DefaultList \in [Fields -> Stored] /\ Values \subseteq Stored
    BY StoreAssumption DEF DefaultList, Stored
  <2>2. SetCommand => ram' \in [Fields -> Stored]
    BY <1>0, <2>1 DEF SetCommand, FlashTypeOK
  <2> QED
    BY <1>0, <2>1, <2>2 DEF BootNet, BootThread, Config, TcpWritten, FrameLogo, FrameHeader,
         STMFLASH_Read, FlashTypeOK, flashVars
<1>3. fpc' \in [Tasks -> FlashLabels]
  BY <1>0 DEF BootNet, BootThread, Config, SetCommand, TcpWritten, FrameLogo, FrameHeader,
       CallWrite, flashVars, FlashTypeOK, FlashLabels
<1>4. FlashTypeOK'
  BY <1>0, <1>1, <1>2, <1>3 DEF FlashTypeOK
<1>5. /\ pc'["tcp"] \in {"boot_net", "boot_thread", "config", "wait", "frame", "write", "reset"}
      /\ then' \in {"config", "wait", "reset"} /\ restored' \in BOOLEAN /\ sets' \in 0 .. MaxSets
  <2>1. pc'["tcp"] \in {"boot_net", "boot_thread", "config", "wait", "frame", "write", "reset"}
    BY <1>0, StoreAssumption DEF BootNet, BootThread, Config, SetCommand, TcpWritten, FrameLogo,
         FrameHeader, CallWrite, Enter, TypeOK
  <2>2. then' \in {"config", "wait", "reset"} /\ restored' \in BOOLEAN
    BY <1>0 DEF BootNet, BootThread, Config, SetCommand, TcpWritten, FrameLogo, FrameHeader, TypeOK
  <2>3. sets' \in 0 .. MaxSets
    BY <1>0, BoundAssumption DEF BootNet, BootThread, Config, SetCommand, TcpWritten, FrameLogo,
         FrameHeader, TypeOK, countVars
  <2> QED
    BY <2>1, <2>2, <2>3
<1>6. netip' \in Stored \X Stored /\ sensor' \in Stored /\ frame' \in [logo : Stored, header : Stored]
  <2>1. \A f \in Fields : flash[f] \in Stored /\ ram[f] \in Stored
    BY <1>0 DEF FlashTypeOK
  <2> QED
    BY <1>0, <2>1, StoreAssumption DEF BootNet, BootThread, Config, SetCommand, TcpWritten, FrameLogo,
       FrameHeader, TypeOK
<1>7. TypeOK'
  BY <1>0, <1>1, <1>4, <1>5, <1>6 DEF TypeOK
<1>8. LocksHeld'
  <2>1. \A t \in Tasks : (fpc'[t] \in InHal <=> fpc[t] \in InHal) /\ (fpc[t] \in Active => fpc'[t] \in Active)
    BY <1>1 DEF InHal, Active
  <2>2. \A t \in Tasks : /\ fpc[t] \in {"erased", "programmed"} => fpc'[t] \in {"erased", "programmed"}
                         /\ fpc'[t] = "erased" => fpc[t] = "erased"
    BY <1>1
  <2> QED
    BY <1>0, <1>1, <2>1, <2>2 DEF LocksHeld
<1>9. Control'
  <2>1. \A t \in Tasks : fpc'[t] # "idle" <=> pc'[t] = "write"
    BY <1>0, StoreAssumption DEF BootNet, BootThread, Config, SetCommand, TcpWritten, FrameLogo,
       FrameHeader, CallWrite, Enter, TypeOK, FlashTypeOK, flashVars, Control
  <2>2. pc'["tcp"] \in {"boot_net", "boot_thread", "config"} => pc'["key"] = "idle"
    BY <1>0, StoreAssumption DEF BootNet, BootThread, Config, SetCommand, TcpWritten, FrameLogo,
       FrameHeader, CallWrite, Enter, TypeOK, Control
  <2>3. pc'["tcp"] = "write" /\ then' = "config" => pc'["key"] = "idle"
    BY <1>0, StoreAssumption DEF BootNet, BootThread, Config, SetCommand, TcpWritten, FrameLogo,
       FrameHeader, CallWrite, Enter, TypeOK, Control
  <2>4. fpc'["tcp"] = "done" => locked'
    BY <1>0, <1>1, StoreAssumption DEF BootNet, BootThread, Config, SetCommand, TcpWritten, FrameLogo,
       FrameHeader, CallWrite, flashVars, FlashTypeOK, Control
  <2> QED
    BY <1>0, <1>1, <2>1, <2>2, <2>3, <2>4 DEF Control
<1>10. Swept("tcp")'
  <2>1. fpc'["tcp"] \in {"idle", "unlock"}
    BY <1>0, StoreAssumption DEF BootNet, BootThread, Config, SetCommand, TcpWritten, FrameLogo,
       FrameHeader, CallWrite, flashVars, FlashTypeOK, Control
  <2> QED
    BY <2>1 DEF Swept
<1>11. TcpBlocked' /\ ~locked' => Swept("key")'
  <2>1. CASE TcpBlocked
    BY <1>1, <2>1 DEF RaceInv, Swept, BlankFrom, BlankWord
  <2>2. CASE ~TcpBlocked /\ Config
    <3>1. fpc'["key"] = "idle"
      BY <1>0, <1>1, <2>2, StoreAssumption DEF Config, Control
    <3> QED
      BY <3>1 DEF Swept
  <2>3. CASE ~TcpBlocked /\ TcpWritten
    BY <1>0, <1>1, <2>3 DEF TcpWritten, Control
  <2>4. CASE BootNet \/ BootThread
    BY <1>0, <2>4, StoreAssumption DEF BootNet, BootThread, CallWrite, Enter, TcpBlocked, TypeOK
  <2> QED
    BY <2>1, <2>2, <2>3, <2>4 DEF SetCommand, FrameLogo, FrameHeader, TcpBlocked
<1> QED
  BY <1>7, <1>8, <1>9, <1>10, <1>11 DEF RaceInv

LEMMA KeyRace ==
    ASSUME RaceInv, LongPress \/ Copy \/ KeyWritten
    PROVE  RaceInv'
<1>0. TypeOK /\ FlashTypeOK /\ LocksHeld /\ Control /\ TcpBlocked /\ "key" \in Tasks /\ "tcp" \in Tasks
  BY StoreAssumption DEF RaceInv, TypeOK, LongPress, Copy, KeyWritten
<1>1. /\ UNCHANGED <<flash, hal, failed, locked, sr, data, netip, sensor, then, frame, restored, sets, cuts>>
      /\ pc'["tcp"] = pc["tcp"] /\ DOMAIN pc' = Tasks
      /\ fpc'["tcp"] = fpc["tcp"] /\ addr'["tcp"] = addr["tcp"]
      /\ {fpc["key"], fpc'["key"]} \subseteq {"idle", "unlock", "done"}
  BY <1>0 DEF LongPress, Copy, KeyWritten, CallWrite, Enter, countVars, TypeOK, FlashTypeOK, Control
<1>2. ram' \in [Fields -> Stored]
  BY <1>0, StoreAssumption DEF LongPress, Copy, KeyWritten, FlashTypeOK, Stored
<1>3. fpc' \in [Tasks -> FlashLabels]
  BY <1>0 DEF LongPress, Copy, KeyWritten, CallWrite, FlashTypeOK, FlashLabels
<1>4. addr' \in [Tasks -> 1 .. Len(Words) + 1] /\ (pc'["key"] = "copy" => addr'["key"] <= Len(Words))
  <2>1. addr \in [Tasks -> 1 .. Len(Words) + 1] /\ addr["key"] \in 1 .. Len(Words) + 1
    BY <1>0 DEF FlashTypeOK
  <2>2. CASE LongPress
    <3>1. 1 \in 1 .. Len(Words) + 1 /\ 1 <= Len(Words)
      BY WordsFit
    <3>2. addr' = [addr EXCEPT !["key"] = 1] /\ addr'["key"] = 1
      BY <1>0, <2>1, <2>2 DEF LongPress
    <3> QED
      BY <2>1, <3>1, <3>2
  <2>3. CASE Copy
    <3>1. pc["key"] = "copy" /\ addr["key"] <= Len(Words)
      BY <1>0, <2>3 DEF Copy, Control
    <3>2. CASE addr["key"] = Len(Words)
      <4>1. pc'["key"] = "write" /\ addr' = addr
        BY <1>0, <2>3, <3>2 DEF Copy, CallWrite, Enter, TypeOK
      <4> QED
        BY <2>1, <4>1
    <3>3. CASE addr["key"] # Len(Words)
      BY <1>0, <2>1, <2>3, <3>1, <3>3, WordsFit DEF Copy
    <3> QED
      BY <3>2, <3>3
  <2>4. CASE KeyWritten
    BY <1>0, <2>1, <2>4 DEF KeyWritten, Enter, TypeOK
  <2> QED
    BY <2>2, <2>3, <2>4
<1>5. FlashTypeOK'
  BY <1>0, <1>1, <1>2, <1>3, <1>4 DEF FlashTypeOK
<1>6. pc'["key"] \in {"idle", "copy", "write", "reset"} /\ presses' \in 0 .. MaxPresses
  <2>1. pc'["key"] \in {"idle", "copy", "write", "reset"}
    BY <1>0 DEF LongPress, Copy, KeyWritten, CallWrite, Enter, TypeOK
  <2>2. presses' \in 0 .. MaxPresses
    BY <1>0, BoundAssumption DEF LongPress, Copy, KeyWritten, countVars, TypeOK
  <2> QED
    BY <2>1, <2>2
<1>7. TypeOK'
  BY <1>0, <1>1, <1>5, <1>6 DEF TypeOK
<1>8. LocksHeld'
  <2>1. \A t \in Tasks : fpc'[t] = fpc[t] \/ {fpc[t], fpc'[t]} \subseteq {"idle", "unlock", "done"}
    BY <1>1, StoreAssumption
  <2>2. \A t \in Tasks : fpc'[t] \in InHal => addr'[t] = addr[t]
    BY <1>1, StoreAssumption DEF InHal
  <2> QED
    BY <1>0, <1>1, <2>1, <2>2 DEF LocksHeld, InHal, Active
<1>9. Control'
  <2>1. fpc'["key"] # "idle" <=> pc'["key"] = "write"
    BY <1>0 DEF LongPress, Copy, KeyWritten, CallWrite, Enter, TypeOK, FlashTypeOK, Control
  <2>2. \A t \in Tasks : fpc'[t] # "idle" <=> pc'[t] = "write"
    BY <1>0, <1>1, <2>1, StoreAssumption DEF Control
  <2> QED
    BY <1>0, <1>1, <1>4, <2>2 DEF Control, TcpBlocked
<1>10. fpc'["tcp"] = "idle"
  BY <1>0, <1>1 DEF Control, TcpBlocked
<1> QED
  BY <1>1, <1>7, <1>8, <1>9, <1>10 DEF RaceInv, Swept

LEMMA StepsRace == RaceInv /\ [Next]_vars => RaceInv'
<1> SUFFICES ASSUME RaceInv, [Next]_vars PROVE RaceInv'
  OBVIOUS
<1>0. /\ TypeOK /\ flash \in [Fields -> Stored] /\ Blank \in [Fields -> Stored]
      /\ "tcp" \in Tasks /\ "key" \in Tasks
  BY StoreAssumption DEF RaceInv, TypeOK, FlashTypeOK, Blank, Stored
<1>1. CASE BootNet \/ BootThread \/ Config \/ SetCommand \/ TcpWritten \/ FrameLogo \/ FrameHeader
  BY <1>1, TcpRace
<1>2. CASE LongPress \/ Copy \/ KeyWritten
  BY <1>2, KeyRace
<1>3. ASSUME NEW t \in Tasks, STMFLASH_Write(t), UNCHANGED <<paramVars, countVars>>,
             t = "key" => TcpBlocked
      PROVE  RaceInv'
  BY <1>3, WriteRace
<1>4. CASE Watchdog \/ \E t \in Tasks : SystemReset(t)
  BY <1>0, <1>4, RestartRace DEF Watchdog, SystemReset, countVars, TypeOK
<1>5. CASE PowerCut
  <2>1. flash' \in [Fields -> Stored]
    <3>1. ASSUME NEW t \in Tasks, CutFlash(t) PROVE flash' \in [Fields -> Stored]
      <4>1. Garbage \in Stored /\ Erased \in Stored /\ data \in [Fields -> Stored]
        BY <1>0 DEF Stored, TypeOK, FlashTypeOK
      <4>2. ASSUME NEW kept, NEW bad
            PROVE  [f \in Fields |-> IF \E w \in kept : f \in Words[w] THEN flash[f]
                                    ELSE IF \E w \in bad : f \in Words[w] THEN Garbage
                                    ELSE Erased] \in [Fields -> Stored]
        BY <1>0, <4>1
      <4>3. Programmed(addr[t], data) \in [Fields -> Stored] /\ Spoilt(addr[t]) \in [Fields -> Stored]
        BY <1>0, <4>1 DEF Programmed, Spoilt
      <4> QED
        BY <1>0, <3>1, <4>2, <4>3 DEF CutFlash
    <3> QED
      BY <1>0, <1>5, <3>1 DEF PowerCut
  <2>2. cuts' \in 0 .. MaxCuts /\ sets' = sets /\ presses' = presses
    BY <1>0, <1>5, BoundAssumption DEF PowerCut, TypeOK
  <2> QED
    BY <1>0, <1>5, <2>1, <2>2, RestartRace DEF PowerCut, TypeOK
<1>6. CASE UNCHANGED vars
  BY <1>6 DEF vars, flashVars, paramVars, countVars, RaceInv, TypeOK, FlashTypeOK, LocksHeld,
       Control, Swept, BlankFrom, BlankWord, TcpBlocked
<1> QED
  BY <1>0, <1>1, <1>2, <1>3, <1>4, <1>5, <1>6 DEF Next, Tcp, Key

(* The two tasks inside STMFLASH_Write keep its locks and sweep what they program. *)
THEOREM RaceInvariance == Spec => []RaceInv
BY InitRace, StepsRace, PTL DEF Spec

(* Type correctness, over both tasks, failing flash, power cuts and restarts. *)
THEOREM TypeCorrect == Spec => []TypeOK
<1>1. RaceInv => TypeOK
  BY DEF RaceInv
<1> QED
  BY <1>1, RaceInvariance, PTL

(* When no task is inside STMFLASH_Write, flash is locked, the HAL free and no error
   pending (stmflash.c:85-156), whatever failed and whoever interrupted whom. *)
THEOREM LocksLeft == Spec => []LeavesLocked
<1>1. RaceInv => LeavesLocked
  <2> SUFFICES ASSUME RaceInv, \A t \in Tasks : fpc[t] \in {"idle", "done"}
               PROVE  locked /\ hal = "free" /\ ~sr
    BY DEF LeavesLocked
  <2> QED
    BY DEF RaceInv, LocksHeld, InHal, Active, TypeOK, FlashTypeOK
<1> QED
  BY <1>1, RaceInvariance, PTL

(* A word is programmed only when it is blank, as long as no erase failed: a task that
   was interrupted finds FLASH_CR locked and programs nothing. *)
THEOREM ErasedOnlyProgrammed == Spec => []ProgramsErasedOnly
<1>1. RaceInv => ProgramsErasedOnly
  <2> SUFFICES ASSUME RaceInv, NEW t \in Tasks, fpc[t] = "programming", ~locked, ~failed,
                      t = "tcp" \/ TcpBlocked
               PROVE  BlankWord(addr[t])
    BY DEF ProgramsErasedOnly
  <2>1. Swept(t)
    BY StoreAssumption DEF RaceInv
  <2>2. hal = t /\ addr[t] \in addr[t] .. Len(Words)
    BY WordsFit DEF RaceInv, LocksHeld, InHal, TypeOK, FlashTypeOK
  <2> QED
    BY <2>1, <2>2 DEF Swept, BlankFrom
<1> QED
  BY <1>1, RaceInvariance, PTL

-----------------------------------------------------------------------------
(* A client and key_task that leave each other alone, and a flash that does not fail. *)

AloneAssumption == ~Concurrent /\ ~FlashFails

Holds(n) == \A w \in 1 .. n : \A f \in Words[w] : flash[f] = ram[f]

(* The words before the one STMFLASH_Write has reached hold what SaveParaList holds. *)
Written(t) ==
    /\ fpc[t] \in Active => ~locked
    /\ fpc[t] \in {"program", "programming"} => Holds(addr[t] - 1)
    /\ fpc[t] = "programming" => data = ram
    /\ fpc[t] = "programmed" => Holds(addr[t])
    /\ fpc[t] \in {"lock", "done"} => flash = ram

(* key starts while tcp waits for its client, and tcp waits until the restart. *)
TakeTurns == pc["key"] # "idle" => pc["tcp"] = "wait"

Copied ==
    /\ pc["key"] = "copy" =>
          \A w \in 1 .. addr["key"] - 1 : \A f \in Words[w] : ram[f] = Default
    /\ pc["key"] \in {"write", "reset"} => ram = DefaultList
    /\ pc["key"] = "reset" => flash = DefaultList

(* Whenever tcp is not about to read the block, SaveParaList is what it holds. *)
Reread == TcpBlocked /\ pc["key"] = "idle" => ram = flash

Address(block) == <<block["iphi"], block["iplo"]>>

(* What tcp took from the block stays right until the restart that the commands for
   the address and the size end in. *)
Configured ==
    /\ FrameSizes
    /\ pc["tcp"] = "frame" => frame.logo = sensor
    /\ pc["tcp"] = "write" /\ then = "wait" =>
          ram["size"] = sensor /\ frame.logo = sensor /\ frame.header = sensor
    /\ TcpBlocked /\ pc["key"] = "idle" => flash["size"] = sensor
    /\ AddressStored
    /\ pc["tcp"] = "boot_thread" => netip = Address(flash)
    /\ pc["tcp"] = "config" /\ ~restored => netip = Address(flash)
    /\ pc["tcp"] = "write" /\ then = "config" => restored
    /\ pc["tcp"] = "write" /\ then = "wait" /\ ~restored => netip = Address(ram)

NotBlank ==
    Erased \notin Values =>
        /\ pc["tcp"] \in {"config", "wait", "frame"} /\ pc["key"] = "idle" => flash["mode"] # Erased
        /\ pc["tcp"] = "write" => ram["mode"] # Erased

AloneInv ==
    /\ RaceInv
    /\ ~sr /\ ~failed
    /\ \A t \in Tasks : Written(t)
    /\ TakeTurns /\ Copied /\ Reread
    /\ Configured /\ NotBlank

(* The words are all of the block. *)
LEMMA WordsCover ==
    ASSUME NEW P \in [Fields -> Stored], NEW Q \in [Fields -> Stored],
           \A w \in 1 .. Len(Words) : \A f \in Words[w] : P[f] = Q[f]
    PROVE  P = Q
BY WordsAssumption

LEMMA InitAlone == Init => AloneInv
<1> SUFFICES ASSUME Init PROVE AloneInv
  OBVIOUS
<1> USE StoreAssumption DEF Init, FlashInit
<1>1. RaceInv
  BY InitRace
<1>2. \A t \in Tasks : Written(t)
  BY DEF Written, Active
<1>3. TakeTurns /\ Copied /\ Reread /\ Configured /\ NotBlank
  BY DEF TakeTurns, Copied, Reread, Configured, NotBlank, FrameSizes, AddressStored, TcpBlocked
<1> QED
  BY <1>1, <1>2, <1>3 DEF AloneInv

(* The task inside STMFLASH_Write is alone there. *)
LEMMA OnlyWriter ==
    ASSUME AloneInv, NEW t \in Tasks, pc[t] = "write"
    PROVE  /\ \A u \in Tasks \ {t} : fpc[u] = "idle" /\ pc[u] # "write"
           /\ hal \in {"free", t} /\ Swept(t) /\ ~sr /\ ~failed
           /\ t = "tcp" => pc["key"] = "idle"
           /\ t = "key" => pc["tcp"] = "wait"
<1>1. t = "tcp" => pc["key"] = "idle"
  BY DEF AloneInv, TakeTurns
<1>2. t = "key" => pc["tcp"] = "wait"
  BY DEF AloneInv, TakeTurns
<1>3. \A u \in Tasks \ {t} : pc[u] # "write"
  BY <1>1, <1>2, StoreAssumption
<1>4. \A u \in Tasks \ {t} : fpc[u] = "idle"
  BY <1>3 DEF AloneInv, RaceInv, Control
<1>5. hal \in {"free", t}
  BY <1>4 DEF AloneInv, RaceInv, LocksHeld, InHal, TypeOK, FlashTypeOK
<1>6. Swept(t)
  <2>1. CASE t = "tcp"
    BY <2>1 DEF AloneInv, RaceInv
  <2>2. CASE t = "key" /\ ~locked
    BY <1>2, <2>2 DEF AloneInv, RaceInv, TcpBlocked
  <2>3. CASE t = "key" /\ locked
    BY <2>3 DEF AloneInv, Written, Active, Swept
  <2> QED
    BY <2>1, <2>2, <2>3, StoreAssumption
<1> QED
  BY <1>1, <1>2, <1>3, <1>4, <1>5, <1>6 DEF AloneInv

(* Word by word, STMFLASH_Write makes the block what SaveParaList is. *)
LEMMA WriteAdvances ==
    ASSUME AloneAssumption, AloneInv, NEW t \in Tasks, pc[t] = "write", STMFLASH_Write(t)
    PROVE  Written(t)' /\ ~sr' /\ ~failed' /\ ram' = ram
<1>0. /\ Len(Words) \in Nat /\ addr[t] \in 1 .. Len(Words) + 1
      /\ fpc \in [Tasks -> FlashLabels] /\ addr \in [Tasks -> 1 .. Len(Words) + 1]
      /\ flash \in [Fields -> Stored] /\ ram \in [Fields -> Stored]
      /\ Written(t) /\ LocksHeld
  BY WordsFit DEF FlashTypeOK, TypeOK, RaceInv, AloneInv
<1>a. hal \in {"free", t} /\ Swept(t) /\ ~sr /\ ~failed
  BY OnlyWriter
<1>b. ram' = ram
  BY DEF STMFLASH_Write, Erase, Programming, Unlock, Scan, EraseReturns, Program, ProgramReturns, Lock
<1> USE <1>0, <1>a DEF Goto
<1>1. CASE Erase(t)
  BY <1>1, <1>b DEF Erase, Written, AloneAssumption, Active
<1>2. CASE Programming(t)
  <2>1. fpc[t] = "programming" /\ ~locked /\ data = ram /\ hal = t
    BY <1>2 DEF Programming, Written, Active, LocksHeld, InHal
  <2>2. /\ flash' = Programmed(addr[t], ram) /\ UNCHANGED <<sr, failed, addr, locked>>
        /\ fpc' = [fpc EXCEPT ![t] = "programmed"]
    BY <1>2, <2>1 DEF Programming, AloneAssumption
  <2>3. BlankFrom(addr[t]) /\ addr[t] \in 1 .. Len(Words)
    BY <2>1 DEF Swept, LocksHeld, InHal
  <2>4. ASSUME NEW w \in 1 .. addr[t], NEW f \in Words[w]
        PROVE  flash'[f] = ram[f]
    <3>1. f \in Fields /\ w \in 1 .. Len(Words)
      BY <2>3, WordsFit
    <3>2. CASE w = addr[t]
      <4>1. flash[f] = Erased
        BY <2>3, <3>2 DEF BlankFrom, BlankWord
      <4> QED
        BY <2>2, <3>1, <3>2, <4>1 DEF Programmed
    <3>3. CASE w # addr[t]
      <4>1. flash[f] = ram[f] /\ w \in 1 .. addr[t] - 1
        BY <2>1, <2>3, <3>3 DEF Written, Holds
      <4>2. f \notin Words[addr[t]]
        BY <2>3, <3>1, <3>3, WordsAssumption
      <4> QED
        BY <2>2, <3>1, <4>1, <4>2 DEF Programmed
    <3> QED
      BY <3>2, <3>3
  <2> QED
    BY <1>b, <2>1, <2>2, <2>4 DEF Written, Holds, Active
<1>3. CASE Unlock(t) /\ failed' = failed
  BY <1>3, <1>b DEF Unlock, Written, Active
<1>4. CASE Scan(t) /\ failed' = failed
  BY <1>4, <1>b DEF Scan, EndScan, Last, Written, Active, Holds, LocksHeld, InHal
<1>5. CASE EraseReturns(t) /\ failed' = failed
  BY <1>5, <1>b DEF EraseReturns, Written, Active
<1>6. CASE Program(t) /\ failed' = failed
  <2>1. fpc[t] = "program" /\ hal = "free" /\ ~locked /\ Holds(addr[t] - 1) /\ flash' = flash /\ addr' = addr
    BY <1>6 DEF Program, LocksHeld, InHal, Written, Active
  <2>2. CASE Last(t)
    <3>1. addr[t] - 1 = Len(Words)
      BY <2>2 DEF Last
    <3>2. flash = ram
      BY <2>1, <3>1, WordsCover DEF Holds
    <3> QED
      BY <1>6, <1>b, <2>1, <2>2, <3>2 DEF Program, Written, Active
  <2>3. CASE ~Last(t)
    BY <1>6, <1>b, <2>1, <2>3 DEF Program, Written, Active, Holds
  <2> QED
    BY <2>2, <2>3
<1>7. CASE ProgramReturns(t) /\ failed' = failed
  BY <1>7, <1>b DEF ProgramReturns, Written, Active, Holds, LocksHeld, InHal
<1>8. CASE Lock(t) /\ failed' = failed
  BY <1>8, <1>b DEF Lock, Written, Active
<1> QED
  BY <1>b, <1>1, <1>2, <1>3, <1>4, <1>5, <1>6, <1>7, <1>8 DEF STMFLASH_Write

LEMMA InsideMeansWrite ==
    ASSUME RaceInv, NEW t \in Tasks, STMFLASH_Write(t)
    PROVE  pc[t] = "write"
<1>1. fpc[t] # "idle"
  BY DEF STMFLASH_Write, Erase, Programming, Unlock, Scan, EraseReturns, Program, ProgramReturns, Lock
<1> QED
  BY <1>1 DEF RaceInv, Control

LEMMA WriteAlone ==
    ASSUME AloneAssumption, AloneInv, NEW t \in Tasks, STMFLASH_Write(t),
           t = "key" => TcpBlocked, UNCHANGED <<paramVars, countVars>>
    PROVE  AloneInv'
<1>1. pc[t] = "write" /\ RaceInv'
  BY InsideMeansWrite, WriteRace DEF AloneInv
<1>2. /\ \A u \in Tasks \ {t} : fpc[u] = "idle" /\ pc[u] # "write"
      /\ t = "tcp" => pc["key"] = "idle"
      /\ t = "key" => pc["tcp"] = "wait"
  BY <1>1, OnlyWriter
<1>3. Written(t)' /\ ~sr' /\ ~failed' /\ ram' = ram
  BY <1>1, WriteAdvances
<1>4. \A u \in Tasks \ {t} : fpc'[u] = "idle"
  BY <1>2 DEF STMFLASH_Write, Erase, Programming, Unlock, Scan, EndScan, EraseReturns, Program,
       ProgramReturns, Lock, Goto, AloneInv, RaceInv, TypeOK, FlashTypeOK
<1>5. \A u \in Tasks : Written(u)'
  BY <1>3, <1>4 DEF Written, Active
<1>6. pc' = pc /\ UNCHANGED <<netip, sensor, then, frame, restored>>
  BY DEF paramVars
<1>7. ~(TcpBlocked /\ pc["key"] = "idle")' /\ t \in {"tcp", "key"}
  BY <1>1, <1>6, StoreAssumption DEF TcpBlocked
<1>8. TakeTurns' /\ Copied' /\ Reread'
  BY <1>1, <1>2, <1>3, <1>6, <1>7 DEF AloneInv, TakeTurns, Copied, Reread
<1>9. Configured'
  BY <1>1, <1>2, <1>3, <1>6, <1>7 DEF AloneInv, Configured, FrameSizes, AddressStored, Address, TcpBlocked
<1>10. NotBlank'
  BY <1>1, <1>2, <1>3, <1>6, <1>7 DEF AloneInv, NotBlank, TcpBlocked
<1> QED
  BY <1>1, <1>3, <1>5, <1>8, <1>9, <1>10 DEF AloneInv

LEMMA RestartAlone ==
    ASSUME RaceInv', Restart
    PROVE  AloneInv'
<1>1. /\ fpc' = [t \in Tasks |-> "idle"] /\ ~sr' /\ ~failed'
      /\ pc' = [t \in Tasks |-> IF t = "tcp" THEN "boot_net" ELSE "idle"]
      /\ then' = "config"
  BY DEF Restart, FlashReset
<1>2. \A t \in Tasks : Written(t)'
  BY <1>1 DEF Written, Active
<1>3. pc'["tcp"] = "boot_net" /\ pc'["key"] = "idle"
  BY <1>1, StoreAssumption
<1>4. TakeTurns' /\ Copied' /\ Reread' /\ Configured' /\ NotBlank'
  BY <1>3 DEF TakeTurns, Copied, Reread, Configured, NotBlank, FrameSizes, AddressStored, TcpBlocked
<1> QED
  BY <1>1, <1>2, <1>4 DEF AloneInv

LEMMA TcpAlone ==
    ASSUME AloneAssumption, AloneInv, BootNet \/ BootThread \/ Config \/ SetCommand \/ TcpWritten
                    \/ FrameLogo \/ FrameHeader
    PROVE  AloneInv'
<1>0. RaceInv' /\ RaceInv /\ TypeOK /\ FlashTypeOK /\ Control /\ pc["key"] = "idle"
  <2>1. RaceInv' /\ RaceInv /\ TypeOK /\ FlashTypeOK /\ Control
    BY TcpRace DEF AloneInv, RaceInv, TypeOK
  <2>2. pc["key"] = "idle"
    BY <2>1 DEF BootNet, BootThread, Config, SetCommand, TcpWritten, FrameLogo, FrameHeader, AloneInv,
         TakeTurns, Undisturbed, AloneAssumption
  <2> QED
    BY <2>1, <2>2
<1>1. /\ UNCHANGED <<flash, hal, failed, locked, sr>>
      /\ pc'["key"] = "idle"
      /\ fpc'["key"] = fpc["key"] /\ fpc["key"] = "idle"
      /\ fpc'["tcp"] \in {"idle", "unlock"}
  BY <1>0, StoreAssumption DEF BootNet, BootThread, Config, SetCommand, TcpWritten, FrameLogo,
       FrameHeader, CallWrite, Enter, flashVars, TypeOK, FlashTypeOK, Control
<1>2. \A t \in Tasks : Written(t)'
  BY <1>1, StoreAssumption DEF Written, Active
<1>3. TakeTurns' /\ Copied'
  BY <1>1 DEF TakeTurns, Copied
<1>t. TcpWritten => pc["tcp"] = "write" /\ pc'["tcp"] = then /\ flash = ram /\ UNCHANGED <<ram, then, restored, netip, sensor, frame>>
  BY <1>0, StoreAssumption DEF TcpWritten, Enter, AloneInv, Written, TypeOK
<1>4. Reread' /\ Configured' /\ NotBlank'
  <2> USE <1>0, <1>1, StoreAssumption
      DEF Enter, TypeOK, Reread, Configured, NotBlank, FrameSizes, AddressStored, TcpBlocked, Address
  <2>1. CASE BootNet
    BY <2>1 DEF BootNet
  <2>2. CASE BootThread
    BY <2>2 DEF BootThread, CallWrite, STMFLASH_Read, AloneInv, DefaultList
  <2>3. CASE Config
    BY <2>3 DEF Config, STMFLASH_Read, AloneInv
  <2>4. CASE SetCommand
    <3>1. PICK c \in Commands, v \in Values :
             /\ ram' = [f \in Fields |-> IF f \in c THEN v ELSE ram[f]]
             /\ then' = IF c \in Resetting THEN "reset" ELSE "wait"
      BY <2>4 DEF SetCommand
    <3>2. pc["tcp"] = "wait" /\ pc'["tcp"] = "write" /\ UNCHANGED <<netip, sensor, frame, restored>>
      BY <2>4 DEF SetCommand, CallWrite
    <3>3. ram = flash
      BY <3>2 DEF AloneInv
    <3>4. then' = "wait" => "size" \notin c /\ "iphi" \notin c /\ "iplo" \notin c
      BY <3>1 DEF Commands, Resetting
    <3>5. then' \in {"wait", "reset"}
      BY <3>1
    <3>6. Reread'
      BY <3>2
    <3>7. Configured'
      BY <3>1, <3>2, <3>3, <3>4, <3>5 DEF AloneInv
    <3>8. NotBlank'
      BY <3>1, <3>2, <3>3 DEF AloneInv
    <3> QED
      BY <3>6, <3>7, <3>8
  <2>5. CASE TcpWritten
    <3>1. Reread'
      BY <1>t, <2>5 DEF AloneInv
    <3>2. Configured'
      BY <1>t, <2>5 DEF AloneInv
    <3>3. NotBlank'
      BY <1>t, <2>5 DEF AloneInv
    <3> QED
      BY <3>1, <3>2, <3>3
  <2>6. CASE FrameLogo
    BY <2>6 DEF FrameLogo, AloneInv, flashVars
  <2>7. CASE FrameHeader
    BY <2>7 DEF FrameHeader, STMFLASH_Read, AloneInv
  <2> QED
    BY <2>1, <2>2, <2>3, <2>4, <2>5, <2>6, <2>7
<1> QED
  BY <1>0, <1>1, <1>2, <1>3, <1>4 DEF AloneInv

LEMMA KeyAlone ==
    ASSUME AloneAssumption, AloneInv, LongPress \/ Copy \/ KeyWritten
    PROVE  AloneInv'
<1>0. /\ RaceInv' /\ TypeOK /\ FlashTypeOK /\ Control /\ "key" \in Tasks /\ "tcp" \in Tasks
      /\ pc["tcp"] = "wait"
  <2>1. RaceInv' /\ TypeOK /\ FlashTypeOK /\ Control
    BY KeyRace DEF AloneInv, RaceInv, TypeOK
  <2>2. pc["tcp"] = "wait"
    BY DEF LongPress, Copy, KeyWritten, AloneInv, TakeTurns, AloneAssumption
  <2> QED
    BY <2>1, <2>2, StoreAssumption
<1>1. /\ UNCHANGED <<flash, hal, failed, locked, sr, netip, sensor, then, frame, restored>>
      /\ pc'["tcp"] = "wait" /\ fpc'["tcp"] = fpc["tcp"]
      /\ fpc'["key"] \in {"idle", "unlock"} /\ fpc["tcp"] = "idle"
      /\ pc'["key"] \in {"copy", "write", "reset"}
  BY <1>0 DEF LongPress, Copy, KeyWritten, CallWrite, Enter, TypeOK, FlashTypeOK, Control
<1>2. \A t \in Tasks : Written(t)'
  BY <1>1, StoreAssumption DEF Written, Active
<1>3. TakeTurns' /\ Reread' /\ NotBlank'
  BY <1>1 DEF TakeTurns, Reread, NotBlank
<1>4. Configured'
  <2>1. FrameSizes
    BY DEF AloneInv, Configured
  <2>2. FrameSizes'
    BY <1>0, <1>1, <2>1 DEF FrameSizes
  <2>3. AddressStored'
    BY <1>1 DEF AddressStored
  <2> QED
    BY <1>1, <2>2, <2>3 DEF Configured
<1>5. Copied'
  <2>a. addr["key"] \in 1 .. Len(Words) + 1 /\ Len(Words) \in Nat /\ addr \in [Tasks -> 1 .. Len(Words) + 1]
    BY <1>0, WordsFit DEF FlashTypeOK
  <2>1. CASE LongPress
    <3>1. pc'["key"] = "copy" /\ addr'["key"] = 1
      BY <1>0, <2>a, <2>1 DEF LongPress, Enter, TypeOK
    <3> QED
      BY <3>1 DEF Copied
  <2>2. CASE Copy
    <3>1. ASSUME NEW w \in 1 .. addr["key"], NEW f \in Words[w] PROVE ram'[f] = Default
      <4>1. w \in 1 .. Len(Words) /\ f \in Fields
        BY <1>0, <2>a, <2>2, WordsFit DEF Copy, Control
      <4>2. ram'[f] = IF f \in Words[addr["key"]] THEN Default ELSE ram[f]
        BY <2>2, <4>1 DEF Copy
      <4>3. w # addr["key"] => ram[f] = Default
        BY <2>a, <2>2, <4>1 DEF AloneInv, Copied, Copy
      <4> QED
        BY <4>2, <4>3
    <3>2. CASE addr["key"] = Len(Words)
      <4>1. ram' \in [Fields -> Stored] /\ DefaultList \in [Fields -> Stored]
        BY <1>0, StoreAssumption DEF RaceInv, TypeOK, FlashTypeOK, DefaultList, Stored
      <4>2. \A w \in 1 .. Len(Words) : \A f \in Words[w] : ram'[f] = DefaultList[f]
        BY <3>1, <3>2, WordsFit DEF DefaultList
      <4>3. ram' = DefaultList
        BY <4>1, <4>2, WordsCover
      <4>4. pc'["key"] = "write"
        BY <1>0, <2>2, <3>2 DEF Copy, CallWrite, Enter, TypeOK
      <4> QED
        BY <4>3, <4>4 DEF Copied
    <3>3. CASE addr["key"] # Len(Words)
      <4>1. pc' = pc /\ addr'["key"] = addr["key"] + 1 /\ pc["key"] = "copy"
        BY <1>0, <2>a, <2>2, <3>3 DEF Copy
      <4> QED
        BY <2>a, <3>1, <4>1 DEF Copied
    <3> QED
      BY <3>2, <3>3
  <2>3. CASE KeyWritten
    <3>1. pc'["key"] = "reset" /\ pc["key"] = "write" /\ ram' = ram /\ flash = ram
      BY <1>0, <2>3 DEF KeyWritten, Enter, TypeOK, AloneInv, Written
    <3> QED
      BY <1>1, <3>1 DEF AloneInv, Copied
  <2> QED
    BY <2>1, <2>2, <2>3
<1> QED
  BY <1>0, <1>1, <1>2, <1>3, <1>4, <1>5 DEF AloneInv

LEMMA StepsAlone ==
    ASSUME AloneAssumption, AloneInv, [Next]_vars
    PROVE  AloneInv'
<1>0. RaceInv' /\ "tcp" \in Tasks /\ "key" \in Tasks
  BY StepsRace, StoreAssumption DEF AloneInv
<1>1. CASE BootNet \/ BootThread \/ Config \/ SetCommand \/ TcpWritten \/ FrameLogo \/ FrameHeader
  BY <1>1, TcpAlone
<1>2. CASE LongPress \/ Copy \/ KeyWritten
  BY <1>2, KeyAlone
<1>3. ASSUME NEW t \in Tasks, STMFLASH_Write(t), UNCHANGED <<paramVars, countVars>>,
             t = "key" => TcpBlocked
      PROVE  AloneInv'
  BY <1>3, WriteAlone
<1>4. CASE Watchdog \/ PowerCut \/ \E t \in Tasks : SystemReset(t)
  BY <1>0, <1>4, RestartAlone DEF Watchdog, PowerCut, SystemReset
<1>5. CASE UNCHANGED vars
  BY <1>0, <1>5 DEF vars, flashVars, paramVars, countVars, AloneInv, Written, Holds, TakeTurns, Copied,
       Reread, Configured, FrameSizes, AddressStored, Address, NotBlank, TcpBlocked
<1> QED
  BY <1>0, <1>1, <1>2, <1>3, <1>4, <1>5 DEF Next, Tcp, Key

(* The invariant behind the three theorems that follow and the refinement. *)
THEOREM AloneInvariance ==
    ASSUME AloneAssumption
    PROVE  Spec => []AloneInv
<1>1. Init => AloneInv
  BY InitAlone
<1>2. AloneInv /\ [Next]_vars => AloneInv'
  BY StepsAlone
<1> QED
  BY <1>1, <1>2, PTL DEF Spec

(* A frame is announced with the size the sensor takes it in: SaveParaList, the block
   read again between logo and header, and the sensor agree. *)
THEOREM SizesAgree ==
    ASSUME AloneAssumption
    PROVE  Spec => []FrameSizes
<1>1. AloneInv => FrameSizes
  BY DEF AloneInv, Configured
<1> QED
  BY <1>1, AloneInvariance, PTL

(* The address lwip_comm_init took from the block is the stored one whenever the camera
   serves a client. *)
THEOREM AddressKept ==
    ASSUME AloneAssumption
    PROVE  Spec => []AddressStored
<1>1. AloneInv => AddressStored
  BY DEF AloneInv, Configured
<1> QED
  BY <1>1, AloneInvariance, PTL

(* No power cut lets the camera serve a client with a blank block, if no command stores
   what blank flash holds. *)
THEOREM BlankReplaced ==
    ASSUME AloneAssumption, Erased \notin Values
    PROVE  Spec => []NeverRunsBlank
<1>1. AloneInv => NeverRunsBlank
  BY DEF AloneInv, NotBlank, NeverRunsBlank, TcpBlocked
<1> QED
  BY <1>1, AloneInvariance, PTL

(* Without a client that goes on meanwhile, flash does hold the defaults when key_task
   says so: DefaultsRestored fails for the race alone. *)
THEOREM DefaultsHold ==
    ASSUME AloneAssumption
    PROVE  Spec => []DefaultsRestored
<1>1. AloneInv => DefaultsRestored
  BY DEF AloneInv, Copied, DefaultsRestored
<1> QED
  BY <1>1, AloneInvariance, PTL

-----------------------------------------------------------------------------
(* The refinement of AtomicParams. *)

\* What AtomicStore puts for the stored block.
StoredNow == IF pc["tcp"] = "write" THEN ram ELSE IF Writing THEN DefaultList ELSE flash

AtomicStep == Atomic!Next \/ (StoredNow' = StoredNow /\ Writing' = Writing)

LEMMA InitAtomic == Init => Atomic!Init
<1> SUFFICES ASSUME Init PROVE Atomic!Init
  OBVIOUS
<1>1. ~Writing /\ pc["tcp"] # "write"
  BY StoreAssumption DEF Init, Writing
<1>2. flash \in [Fields -> Stored]
  BY InitRace DEF RaceInv, TypeOK, FlashTypeOK
<1> QED
  BY <1>1, <1>2 DEF Atomic!Init, Atomic!Blocks, Stored

(* Inside STMFLASH_Write, and while DefaultList is copied, the promise does not move. *)
LEMMA WriteAtomic ==
    ASSUME AloneAssumption, AloneInv, NEW t \in Tasks, STMFLASH_Write(t),
           UNCHANGED <<paramVars, countVars>>
    PROVE  AtomicStep
<1>1. pc[t] = "write" /\ ram' = ram /\ pc' = pc /\ t \in {"tcp", "key"}
  BY InsideMeansWrite, WriteAdvances, StoreAssumption DEF AloneInv, paramVars
<1> QED
  BY <1>1 DEF AtomicStep, StoredNow, Writing

(* A restart ends a write that is over or is cut; it moves nothing else. *)
LEMMA RestartAtomic ==
    ASSUME Restart, flash' \in Atomic!Blocks, ~Writing => flash' = flash
    PROVE  AtomicStep
<1>1. ~Writing' /\ StoredNow' = flash'
  BY StoreAssumption DEF Restart, Writing, StoredNow
<1>2. CASE Writing
  <2>1. Atomic!Cut
    BY <1>1, <1>2 DEF Atomic!Cut, StoredNow
  <2> QED
    BY <2>1 DEF AtomicStep, Atomic!Next
<1>3. CASE ~Writing
  BY <1>1, <1>3 DEF AtomicStep, StoredNow, Writing
<1> QED
  BY <1>2, <1>3

LEMMA TcpAtomic ==
    ASSUME AloneAssumption, AloneInv, BootNet \/ BootThread \/ Config \/ SetCommand \/ TcpWritten
                    \/ FrameLogo \/ FrameHeader
    PROVE  AtomicStep
<1>0. /\ DOMAIN pc = Tasks /\ Control /\ "tcp" \in Tasks
      /\ pc["key"] = "idle" /\ pc'["key"] = "idle"
  <2>1. DOMAIN pc = Tasks /\ Control
    BY DEF AloneInv, RaceInv, TypeOK
  <2>2. pc["key"] = "idle"
    BY <2>1 DEF BootNet, BootThread, Config, SetCommand, TcpWritten, FrameLogo, FrameHeader, AloneInv,
         TakeTurns, Undisturbed, AloneAssumption
  <2>3. pc'["key"] = "idle"
    BY <2>1, <2>2, StoreAssumption DEF BootNet, BootThread, Config, SetCommand, TcpWritten, FrameLogo,
         FrameHeader, CallWrite, Enter
  <2> QED
    BY <2>1, <2>2, <2>3, StoreAssumption
<1> USE <1>0 DEF Enter
<1>1. CASE BootNet \/ Config \/ FrameLogo \/ FrameHeader
  <2>1. pc["tcp"] # "write" /\ pc'["tcp"] # "write" /\ flash' = flash
    BY <1>1 DEF BootNet, Config, FrameLogo, FrameHeader, flashVars
  <2> QED
    BY <2>1 DEF AtomicStep, StoredNow, Writing
<1>2. CASE BootThread
  <2>1. CASE flash["mode"] = Erased
    <3>1. pc["tcp"] # "write" /\ pc'["tcp"] = "write" /\ ram' = DefaultList
      BY <1>2, <2>1 DEF BootThread, CallWrite
    <3> QED
      BY <3>1 DEF AtomicStep, StoredNow, Writing, Atomic!Next, Atomic!Defaults
  <2>2. CASE flash["mode"] # Erased
    <3>1. pc["tcp"] # "write" /\ pc'["tcp"] # "write" /\ flash' = flash
      BY <1>2, <2>2 DEF BootThread
    <3> QED
      BY <3>1 DEF AtomicStep, StoredNow, Writing
  <2> QED
    BY <2>1, <2>2
<1>3. CASE SetCommand
  <2>1. PICK c \in Commands, v \in Values : ram' = [f \in Fields |-> IF f \in c THEN v ELSE ram[f]]
    BY <1>3 DEF SetCommand
  <2>2. pc["tcp"] = "wait" /\ pc'["tcp"] = "write"
    BY <1>3 DEF SetCommand, CallWrite
  <2>3. ~Writing /\ Writing' /\ StoredNow = flash /\ StoredNow' = ram'
    BY <2>2 DEF Writing, StoredNow
  <2>4. ram = flash
    BY <2>2 DEF AloneInv, Reread, TcpBlocked
  <2>5. Atomic!Set(c, v)
    BY <2>1, <2>3, <2>4 DEF Atomic!Set, StoredNow
  <2> QED
    BY <2>5 DEF AtomicStep, Atomic!Next
<1>4. CASE TcpWritten
  <2>1. pc["tcp"] = "write" /\ fpc["tcp"] = "done" /\ pc'["tcp"] = then /\ flash' = flash /\ ram' = ram
    BY <1>4 DEF TcpWritten
  <2>2. then # "write" /\ flash = ram
    BY <2>1 DEF AloneInv, Written, RaceInv, TypeOK
  <2> QED
    BY <2>1, <2>2 DEF AtomicStep, StoredNow, Writing, Atomic!Next, Atomic!Finish
<1> QED
  BY <1>1, <1>2, <1>3, <1>4

LEMMA KeyAtomic ==
    ASSUME AloneAssumption, AloneInv, LongPress \/ Copy \/ KeyWritten
    PROVE  AtomicStep
<1>0. /\ DOMAIN pc = Tasks /\ "key" \in Tasks /\ "tcp" \in Tasks
      /\ pc["tcp"] = "wait" /\ pc'["tcp"] = "wait" /\ flash' = flash
  <2>1. DOMAIN pc = Tasks
    BY DEF AloneInv, RaceInv, TypeOK
  <2>2. pc["tcp"] = "wait"
    BY DEF LongPress, Copy, KeyWritten, AloneInv, TakeTurns, AloneAssumption
  <2>3. pc'["tcp"] = "wait" /\ flash' = flash
    BY <2>1, <2>2, StoreAssumption DEF LongPress, Copy, KeyWritten, CallWrite, Enter
  <2> QED
    BY <2>1, <2>2, <2>3, StoreAssumption
<1> USE <1>0 DEF Enter, StoredNow, Writing, AtomicStep
<1>1. CASE LongPress
  <2>1. pc["key"] = "idle" /\ pc'["key"] = "copy"
    BY <1>1 DEF LongPress
  <2> QED
    BY <2>1 DEF Atomic!Next, Atomic!Defaults
<1>2. CASE Copy
  <2>1. pc["key"] = "copy" /\ pc'["key"] \in {"copy", "write"}
    BY <1>2 DEF Copy, CallWrite
  <2> QED
    BY <2>1
<1>3. CASE KeyWritten
  <2>1. pc["key"] = "write" /\ pc'["key"] = "reset" /\ flash = DefaultList
    BY <1>3 DEF KeyWritten, AloneInv, Copied, Written
  <2> QED
    BY <2>1 DEF Atomic!Next, Atomic!Finish
<1> QED
  BY <1>1, <1>2, <1>3

LEMMA StepsAtomic ==
    ASSUME AloneAssumption, AloneInv, [Next]_vars
    PROVE  AtomicStep
<1>0. RaceInv' /\ "tcp" \in Tasks /\ "key" \in Tasks
  BY StepsRace, StoreAssumption DEF AloneInv
<1>a. flash' \in Atomic!Blocks /\ flash \in Atomic!Blocks
  BY <1>0 DEF AloneInv, RaceInv, TypeOK, FlashTypeOK, Atomic!Blocks, Stored
<1>1. CASE BootNet \/ BootThread \/ Config \/ SetCommand \/ TcpWritten \/ FrameLogo \/ FrameHeader
  BY <1>1, TcpAtomic
<1>2. CASE LongPress \/ Copy \/ KeyWritten
  BY <1>2, KeyAtomic
<1>3. ASSUME NEW t \in Tasks, STMFLASH_Write(t), UNCHANGED <<paramVars, countVars>>
      PROVE  AtomicStep
  BY <1>3, WriteAtomic
<1>4. CASE Watchdog \/ \E t \in Tasks : SystemReset(t)
  BY <1>a, <1>4, RestartAtomic DEF Watchdog, SystemReset
<1>5. CASE PowerCut
  <2>1. Restart
    BY <1>5 DEF PowerCut
  <2>2. ~Writing => flash' = flash
    <3>1. SUFFICES ASSUME ~Writing PROVE flash' = flash
      OBVIOUS
    <3>2. fpc["tcp"] = "idle" /\ fpc["key"] = "idle"
      BY <1>0, <3>1 DEF Writing, AloneInv, RaceInv, Control
    <3> QED
      BY <1>5, <3>2 DEF PowerCut, CutFlash
  <2> QED
    BY <1>a, <2>1, <2>2, RestartAtomic
<1>6. CASE UNCHANGED vars
  BY <1>6 DEF vars, flashVars, paramVars, AtomicStep, StoredNow, Writing
<1> QED
  BY <1>0, <1>1, <1>2, <1>3, <1>4, <1>5, <1>6 DEF Next, Tcp, Key

(* STMFLASH_Write, word by word and cut anywhere, implements one atomic update: the
   detailed specification implements AtomicParams. *)
THEOREM AtomicStored ==
    ASSUME AloneAssumption
    PROVE  Spec => AtomicStore
<1>1. AloneInv /\ [Next]_vars => [Atomic!Next]_<<StoredNow, Writing>>
  BY StepsAtomic DEF AtomicStep
<1>2. [Atomic!Next]_<<StoredNow, Writing>> <=>
      [Atomic!Next]_<<IF pc["tcp"] = "write" THEN ram ELSE IF Writing THEN DefaultList ELSE flash, Writing>>
  BY DEF StoredNow
<1>3. Spec => []AloneInv
  BY AloneInvariance
<1> QED
  BY <1>1, <1>2, <1>3, InitAtomic, PTL DEF Spec, AtomicStore, Atomic!Spec
=============================================================================
