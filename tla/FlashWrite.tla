----------------------------- MODULE FlashWrite -----------------------------
(***************************************************************************)
(* STMFLASH_Write (stmflash.c) as the tasks run it: the scan that erases the *)
(* sector before the first word that is not blank, the programming of one   *)
(* word after the other, and the HAL calls both go through, which share one  *)
(* software lock, one hardware lock (FLASH_CR_LOCK) and one error flag.     *)
(*                                                                          *)
(* Nothing keeps a second task from calling STMFLASH_Write while a first is *)
(* inside it, so every step of it is an action of its own.  The sector holds *)
(* the saved parameters only, as functions from fields to values; a word of *)
(* flash holds several fields.  A locked FLASH_CR ignores an erase, and     *)
(* programming without its PG bit raises PGSERR.                            *)
(***************************************************************************)
EXTENDS Integers, Sequences

CONSTANTS
    Tasks,          \* the tasks that write
    Fields,         \* the members of SavePara_TypeDef told apart
    Words,          \* sequence of sets of fields: the words of the parameter block
    Values,         \* what a field of a legal parameter block holds
    Erased,         \* a field of blank flash, all ones
    Garbage,        \* a field programmed twice, or left half done
    FlashFails      \* an erase or a word may fail in the flash

ASSUME WordsAssumption ==
    /\ Words \in Seq(SUBSET Fields) /\ Words # <<>>
    /\ \A f \in Fields : \E w \in DOMAIN Words :
          \A v \in DOMAIN Words : f \in Words[v] <=> v = w
ASSUME ValueAssumption == Erased # Garbage /\ Garbage \notin Values
ASSUME FailAssumption == FlashFails \in BOOLEAN

VARIABLES
    flash,          \* the parameter block in flash
    ram,            \* SaveParaList
    fpc,            \* where each task is in STMFLASH_Write
    addr,           \* the word it has reached (addrx in the scan, then WriteAddr)
    hal,            \* pFlash.Lock: the task inside a HAL call, or "free"
    locked,         \* FLASH_CR_LOCK
    sr,             \* an error flag of FLASH_SR
    data,           \* the word handed to HAL_FLASH_Program
    failed          \* an erase or a word failed since the start of the controller

flashVars == <<flash, ram, fpc, addr, hal, locked, sr, data, failed>>

Stored == Values \cup {Erased, Garbage}
FlashLabels == {"idle", "unlock", "scan", "erase", "erased", "program",
                "programming", "programmed", "lock", "done"}

FlashTypeOK ==
    /\ flash \in [Fields -> Stored]
    /\ ram \in [Fields -> Stored]
    /\ fpc \in [Tasks -> FlashLabels]
    /\ addr \in [Tasks -> 1 .. Len(Words) + 1]
    /\ hal \in Tasks \cup {"free"}
    /\ locked \in BOOLEAN
    /\ sr \in BOOLEAN
    /\ data \in [Fields -> Stored]
    /\ failed \in BOOLEAN

Blank == [f \in Fields |-> Erased]

\* A block of all the given values, one of them, or blank, at power on.
FlashInit ==
    /\ flash \in {Blank} \cup {[f \in Fields |-> v] : v \in Values}
    /\ fpc = [t \in Tasks |-> "idle"]
    /\ addr = [t \in Tasks |-> 1]
    /\ hal = "free"
    /\ locked = TRUE
    /\ sr = FALSE
    /\ data = Blank
    /\ failed = FALSE

\* The state of the driver after a reset, whatever it was doing.
FlashReset ==
    /\ fpc' = [t \in Tasks |-> "idle"]
    /\ addr' = [t \in Tasks |-> 1]
    /\ hal' = "free"
    /\ locked' = TRUE
    /\ sr' = FALSE
    /\ data' = Blank
    /\ failed' = FALSE

Goto(t, l) == fpc' = [fpc EXCEPT ![t] = l]
BlankWord(w) == \A f \in Words[w] : flash[f] = Erased
Last(t) == addr[t] > Len(Words)

(* HAL_FLASH_Unlock; a FLASH_CR that is unlocked already stays so. *)
Unlock(t) ==
    /\ fpc[t] = "unlock"
    /\ locked' = FALSE
    /\ addr' = [addr EXCEPT ![t] = 1]
    /\ Goto(t, "scan")
    /\ UNCHANGED <<flash, ram, hal, sr, data>>

\* Where the erasing loop ends, FLASH_WaitForLastOperation decides whether the
\* block is programmed; it clears the error flag it reports.
EndScan(t) ==
    /\ Goto(t, IF sr THEN "lock" ELSE "program")
    /\ addr' = [addr EXCEPT ![t] = 1]
    /\ sr' = FALSE

(* One turn of the erasing loop: a blank word is passed over; any other has
   HAL_FLASHEx_Erase called, which answers HAL_BUSY (and ends the loop) while
   another task is inside the HAL. *)
Scan(t) ==
    /\ fpc[t] = "scan"
    /\ \/ /\ Last(t)
          /\ EndScan(t)
          /\ hal' = hal
       \/ /\ ~Last(t)
          /\ BlankWord(addr[t])
          /\ addr' = [addr EXCEPT ![t] = @ + 1]
          /\ sr' = FALSE
          /\ UNCHANGED <<fpc, hal>>
       \/ /\ ~Last(t)
          /\ ~BlankWord(addr[t])
          /\ hal = "free"
          /\ hal' = t
          /\ Goto(t, "erase")
          /\ UNCHANGED <<addr, sr>>
       \/ /\ ~Last(t)
          /\ ~BlankWord(addr[t])
          /\ hal # "free"
          /\ EndScan(t)
          /\ hal' = hal
    /\ UNCHANGED <<flash, ram, locked, data>>

(* The erase itself: the whole sector, unless FLASH_CR is locked. *)
Erase(t) ==
    /\ fpc[t] = "erase"
    /\ \/ /\ flash' = IF locked THEN flash ELSE Blank
          /\ UNCHANGED <<sr, failed>>
       \/ /\ FlashFails
          /\ ~locked
          /\ flash' = flash
          /\ sr' = TRUE
          /\ failed' = TRUE
    /\ Goto(t, "erased")
    /\ UNCHANGED <<ram, addr, hal, locked, data>>

\* Mutant: an error leaves through a path that keeps the HAL lock.
EraseReturns_KeepsLock(t) ==
    /\ fpc[t] = "erased"
    /\ hal' = IF sr THEN hal ELSE "free"
    /\ sr' = FALSE
    /\ Goto(t, IF sr THEN "program" ELSE "scan")
    /\ addr' = [addr EXCEPT ![t] = IF sr THEN 1 ELSE @]
    /\ UNCHANGED <<flash, ram, locked, data>>

(* HAL_FLASHEx_Erase returns.  HAL_OK looks at the same word again; an error
   ends the loop, with the flag already cleared. *)
EraseReturns(t) ==
    /\ fpc[t] = "erased"
    /\ hal' = "free"
    /\ sr' = FALSE
    /\ Goto(t, IF sr THEN "program" ELSE "scan")
    /\ addr' = [addr EXCEPT ![t] = IF sr THEN 1 ELSE @]
    /\ UNCHANGED <<flash, ram, locked, data>>

\* Mutant: HAL_FLASH_Program without __HAL_LOCK.
Program_NoLock(t) ==
    /\ fpc[t] = "program"
    /\ IF Last(t)
         THEN Goto(t, "lock") /\ UNCHANGED <<hal, data>>
         ELSE Goto(t, "programming") /\ hal' = t /\ data' = ram
    /\ UNCHANGED <<flash, ram, addr, locked, sr>>

(* HAL_FLASH_Program is called with the word SaveParaList holds now, or the
   loop ends. *)
Program(t) ==
    /\ fpc[t] = "program"
    /\ IF Last(t) \/ hal # "free"
         THEN Goto(t, "lock") /\ UNCHANGED <<hal, data>>
         ELSE Goto(t, "programming") /\ hal' = t /\ data' = ram
    /\ UNCHANGED <<flash, ram, addr, locked, sr>>

\* Programming clears bits only: a field that is not blank is spoilt.
Programmed(w, block) ==
    [f \in Fields |-> IF f \notin Words[w] \/ flash[f] = block[f] THEN flash[f]
                      ELSE IF flash[f] = Erased THEN block[f]
                      ELSE IF block[f] = Erased THEN flash[f]
                      ELSE Garbage]
Spoilt(w) == [f \in Fields |-> IF f \in Words[w] THEN Garbage ELSE flash[f]]

(* The word is written. *)
Programming(t) ==
    /\ fpc[t] = "programming"
    /\ \/ /\ ~locked
          /\ flash' = Programmed(addr[t], data)
          /\ UNCHANGED <<sr, failed>>
       \/ /\ FlashFails
          /\ ~locked
          /\ flash' = Spoilt(addr[t])
          /\ sr' = TRUE
          /\ failed' = TRUE
       \/ /\ locked
          /\ flash' = flash
          /\ sr' = TRUE
          /\ failed' = failed
    /\ Goto(t, "programmed")
    /\ UNCHANGED <<ram, addr, hal, locked, data>>

\* Mutant: the address counts bytes, the index words.
ProgramReturns_Bytes(t) ==
    /\ fpc[t] = "programmed"
    /\ hal' = "free"
    /\ sr' = FALSE
    /\ IF sr
         THEN Goto(t, "lock") /\ addr' = addr
         ELSE Goto(t, "program") /\ addr' = [addr EXCEPT ![t] = @ + 4]
    /\ UNCHANGED <<flash, ram, locked, data>>

\* Mutant: one word too few.
ProgramReturns_Short(t) ==
    /\ fpc[t] = "programmed"
    /\ hal' = "free"
    /\ sr' = FALSE
    /\ IF sr \/ addr[t] + 1 = Len(Words)
         THEN Goto(t, "lock") /\ addr' = addr
         ELSE Goto(t, "program") /\ addr' = [addr EXCEPT ![t] = @ + 1]
    /\ UNCHANGED <<flash, ram, locked, data>>

(* HAL_FLASH_Program returns; an error ends the loop. *)
ProgramReturns(t) ==
    /\ fpc[t] = "programmed"
    /\ hal' = "free"
    /\ sr' = FALSE
    /\ IF sr
         THEN Goto(t, "lock") /\ addr' = addr
         ELSE Goto(t, "program") /\ addr' = [addr EXCEPT ![t] = @ + 1]
    /\ UNCHANGED <<flash, ram, locked, data>>

(* HAL_FLASH_Lock, and the return to the caller, who is told nothing. *)
Lock(t) ==
    /\ fpc[t] = "lock"
    /\ locked' = TRUE
    /\ Goto(t, "done")
    /\ UNCHANGED <<flash, ram, addr, hal, sr, data>>

STMFLASH_Write(t) ==
    \/ Erase(t)
    \/ Programming(t)
    \/ /\ \/ Unlock(t)
          \/ Scan(t)
          \/ EraseReturns(t)
          \/ Program(t)
          \/ ProgramReturns(t)
          \/ Lock(t)
       /\ failed' = failed

(* STMFLASH_Read of the whole block into SaveParaList. *)
STMFLASH_Read == ram' = flash

(* The supply fails while task t runs: what it is erasing or programming is left
   at any stage. *)
CutFlash(t) ==
    \/ /\ fpc[t] \notin {"erase", "programming"} \/ locked
       /\ flash' = flash
    \/ /\ fpc[t] = "erase"
       /\ ~locked
       /\ flash' \in {[f \in Fields |-> IF \E w \in kept : f \in Words[w] THEN flash[f]
                                        ELSE IF \E w \in bad : f \in Words[w] THEN Garbage
                                        ELSE Erased]
                         : kept, bad \in SUBSET DOMAIN Words}
    \/ /\ fpc[t] = "programming"
       /\ ~locked
       /\ flash' \in {flash, Programmed(addr[t], data), Spoilt(addr[t])}
=============================================================================
