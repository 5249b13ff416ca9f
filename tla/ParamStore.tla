----------------------------- MODULE ParamStore -----------------------------
(***************************************************************************)
(* The saved parameters of the camera: the block in flash, its copy          *)
(* SaveParaList in RAM, and everything that reads or writes them.            *)
(*                                                                          *)
(*   tcp   lwip_comm_init before the scheduler runs, then tcp_server_thread: *)
(*         boot, set commands (PollMessage), the two reads of a frame        *)
(*   key   key_task, when a press of 5 to 15 s restores the defaults         *)
(*                                                                          *)
(* tcp has the higher priority: key runs only while tcp is blocked, and tcp  *)
(* may take over between any two steps of key.  The supply may fail at any   *)
(* step.  The field "mode" stands for mode and cap, "iphi" and "iplo" for    *)
(* the address, "size" for the picture size; a word holds whole fields.      *)
(***************************************************************************)
EXTENDS FlashWrite

CONSTANTS
    Default,        \* the value of the fields of DefaultList
    MaxSets,        \* bound: set commands
    MaxCuts,        \* bound: failures of the supply
    MaxPresses,     \* bound: presses of 5 to 15 s
    Concurrent      \* the client goes on while key_task restores the defaults

ASSUME StoreAssumption == /\ Tasks = {"tcp", "key"}
                          /\ Fields = {"mode", "iphi", "iplo", "port", "size"}
                          /\ Default \in Values
ASSUME BoundAssumption == /\ MaxSets \in Nat /\ MaxCuts \in Nat /\ MaxPresses \in Nat
                          /\ Concurrent \in BOOLEAN

VARIABLES
    pc,             \* where each task is
    netip,          \* lwipdev.ip
    sensor,         \* the picture size the sensor was configured for
    then,           \* where tcp goes when STMFLASH_Write returns
    frame,          \* the sizes the last frame was announced with
    restored,       \* this boot restored the defaults
    sets, cuts, presses

paramVars == <<pc, netip, sensor, then, frame, restored>>
countVars == <<sets, cuts, presses>>
vars == <<flashVars, paramVars, countVars>>

DefaultList == [f \in Fields |-> Default]
Commands == {{"mode"}, {"iphi", "iplo"}, {"port"}, {"size"}}
Resetting == {{"iphi", "iplo"}, {"size"}}   \* setipa and setsiz restart the camera

TypeOK ==
    /\ FlashTypeOK
    /\ pc["tcp"] \in {"boot_net", "boot_thread", "config", "wait", "frame", "write", "reset"}
    /\ pc["key"] \in {"idle", "copy", "write", "reset"}
    /\ DOMAIN pc = Tasks
    /\ netip \in Stored \X Stored
    /\ sensor \in Stored
    /\ then \in {"config", "wait", "reset"}
    /\ frame \in [logo : Stored, header : Stored]
    /\ restored \in BOOLEAN
    /\ sets \in 0 .. MaxSets
    /\ cuts \in 0 .. MaxCuts
    /\ presses \in 0 .. MaxPresses

Init ==
    /\ FlashInit
    /\ ram = DefaultList
    /\ pc = [t \in Tasks |-> IF t = "tcp" THEN "boot_net" ELSE "idle"]
    /\ netip = <<Erased, Erased>>
    /\ sensor = Erased
    /\ then = "config"
    /\ frame = [logo |-> Erased, header |-> Erased]
    /\ restored = FALSE
    /\ sets = 0
    /\ cuts = 0
    /\ presses = 0

Enter(t, l) == pc' = [pc EXCEPT ![t] = l]

(* The controller starts again: registers and RAM at their initial values. *)
Restart ==
    /\ FlashReset
    /\ ram' = DefaultList
    /\ pc' = [t \in Tasks |-> IF t = "tcp" THEN "boot_net" ELSE "idle"]
    /\ netip' = <<Erased, Erased>>
    /\ sensor' = Erased
    /\ then' = "config"
    /\ frame' = [logo |-> Erased, header |-> Erased]
    /\ restored' = FALSE

CallWrite(t) ==
    /\ Enter(t, "write")
    /\ fpc' = [fpc EXCEPT ![t] = "unlock"]

-----------------------------------------------------------------------------
(* tcp *)

(* lwip_comm_default_ip_set: the address comes from the block as it is. *)
BootNet ==
    /\ pc["tcp"] = "boot_net"
    /\ STMFLASH_Read
    /\ netip' = <<flash["iphi"], flash["iplo"]>>
    /\ Enter("tcp", "boot_thread")
    /\ UNCHANGED <<flash, fpc, addr, hal, failed, locked, sr, data, sensor, then, frame,
                   restored, countVars>>

\* Mutant: the defaults are restored in RAM only.
BootThread_RamOnly ==
    /\ pc["tcp"] = "boot_thread"
    /\ IF flash["mode"] = Erased
         THEN /\ ram' = DefaultList
              /\ then' = "config"
              /\ restored' = TRUE
         ELSE /\ STMFLASH_Read
              /\ UNCHANGED <<then, restored>>
    /\ Enter("tcp", "config")
    /\ UNCHANGED <<flash, fpc, addr, hal, failed, locked, sr, data, netip, sensor, frame,
                   countVars>>

(* tcp_server_thread starts: a block whose mode and cap are blank is replaced by
   DefaultList, any other is taken as it is. *)
BootThread ==
    /\ pc["tcp"] = "boot_thread"
    /\ IF flash["mode"] = Erased
         THEN /\ ram' = DefaultList
              /\ then' = "config"
              /\ restored' = TRUE
              /\ CallWrite("tcp")
         ELSE /\ STMFLASH_Read
              /\ Enter("tcp", "config")
              /\ UNCHANGED <<fpc, then, restored>>
    /\ UNCHANGED <<flash, addr, hal, failed, locked, sr, data, netip, sensor, frame,
                   countVars>>

(* MT9D111_Jpeg_Config reads the block again and sets the sensor up. *)
Config ==
    /\ pc["tcp"] = "config"
    /\ STMFLASH_Read
    /\ sensor' = flash["size"]
    /\ frame' = [logo |-> flash["size"], header |-> flash["size"]]
    /\ Enter("tcp", "wait")
    /\ UNCHANGED <<flash, fpc, addr, hal, failed, locked, sr, data, netip, then, restored,
                   countVars>>

Undisturbed == Concurrent \/ pc["key"] = "idle"

\* Mutant: setsiz does not restart the camera.
SetCommand_NoRestart ==
    /\ pc["tcp"] = "wait"
    /\ Undisturbed
    /\ sets < MaxSets
    /\ \E c \in Commands, v \in Values :
          /\ ram' = [f \in Fields |-> IF f \in c THEN v ELSE ram[f]]
          /\ then' = IF c = {"iphi", "iplo"} THEN "reset" ELSE "wait"
    /\ sets' = sets + 1
    /\ CallWrite("tcp")
    /\ UNCHANGED <<flash, addr, hal, failed, locked, sr, data, netip, sensor, frame, restored,
                   cuts, presses>>

\* Mutant: setipa does not restart the camera.
SetCommand_KeepsAddress ==
    /\ pc["tcp"] = "wait"
    /\ Undisturbed
    /\ sets < MaxSets
    /\ \E c \in Commands, v \in Values :
          /\ ram' = [f \in Fields |-> IF f \in c THEN v ELSE ram[f]]
          /\ then' = IF c = {"size"} THEN "reset" ELSE "wait"
    /\ sets' = sets + 1
    /\ CallWrite("tcp")
    /\ UNCHANGED <<flash, addr, hal, failed, locked, sr, data, netip, sensor, frame, restored,
                   cuts, presses>>

(* PollMessage obeys a valid set command: one field (two for setipa) of
   SaveParaList, then the whole block is written. *)
SetCommand ==
    /\ pc["tcp"] = "wait"
    /\ Undisturbed
    /\ sets < MaxSets
    /\ \E c \in Commands, v \in Values :
          /\ ram' = [f \in Fields |-> IF f \in c THEN v ELSE ram[f]]
          /\ then' = IF c \in Resetting THEN "reset" ELSE "wait"
    /\ sets' = sets + 1
    /\ CallWrite("tcp")
    /\ UNCHANGED <<flash, addr, hal, failed, locked, sr, data, netip, sensor, frame, restored,
                   cuts, presses>>

(* STMFLASH_Write has returned to tcp. *)
TcpWritten ==
    /\ pc["tcp"] = "write"
    /\ fpc["tcp"] = "done"
    /\ fpc' = [fpc EXCEPT !["tcp"] = "idle"]
    /\ Enter("tcp", then)
    /\ UNCHANGED <<flash, ram, addr, hal, failed, locked, sr, data, netip, sensor, then, frame,
                   restored, countVars>>

(* HAL_NVIC_SystemReset, in tcp or in key. *)
SystemReset(t) ==
    /\ pc[t] = "reset"
    /\ Restart
    /\ UNCHANGED <<flash, countVars>>

(* The logo of a frame carries the size in SaveParaList; tcp then blocks in
   netconn_write. *)
FrameLogo ==
    /\ pc["tcp"] = "wait"
    /\ Undisturbed
    /\ frame' = [frame EXCEPT !.logo = ram["size"]]
    /\ Enter("tcp", "frame")
    /\ UNCHANGED <<flashVars, netip, sensor, then, restored, countVars>>

(* MT9D111_Greate_Header reads the block again and puts its size into the JPEG
   header. *)
FrameHeader ==
    /\ pc["tcp"] = "frame"
    /\ STMFLASH_Read
    /\ frame' = [frame EXCEPT !.header = flash["size"]]
    /\ Enter("tcp", "wait")
    /\ UNCHANGED <<flash, fpc, addr, hal, failed, locked, sr, data, netip, sensor, then,
                   restored, countVars>>

-----------------------------------------------------------------------------
(* key *)

TcpBlocked == pc["tcp"] \in {"wait", "frame"}

(* key_task finds that the key was held for 5 to 15 s. *)
LongPress ==
    /\ pc["key"] = "idle"
    /\ TcpBlocked
    /\ Concurrent \/ pc["tcp"] = "wait"
    /\ presses < MaxPresses
    /\ presses' = presses + 1
    /\ addr' = [addr EXCEPT !["key"] = 1]
    /\ Enter("key", "copy")
    /\ UNCHANGED <<flash, ram, fpc, hal, failed, locked, sr, data, netip, sensor, then, frame,
                   restored, sets, cuts>>

(* SaveParaList=DefaultList, a word at a time. *)
Copy ==
    /\ pc["key"] = "copy"
    /\ TcpBlocked
    /\ ram' = [f \in Fields |-> IF f \in Words[addr["key"]] THEN Default ELSE ram[f]]
    /\ IF addr["key"] = Len(Words)
         THEN CallWrite("key") /\ addr' = addr
         ELSE addr' = [addr EXCEPT !["key"] = @ + 1] /\ UNCHANGED <<pc, fpc>>
    /\ UNCHANGED <<flash, hal, failed, locked, sr, data, netip, sensor, then, frame, restored,
                   countVars>>

(* STMFLASH_Write has returned to key, which prints that the defaults are set. *)
KeyWritten ==
    /\ pc["key"] = "write"
    /\ fpc["key"] = "done"
    /\ TcpBlocked
    /\ fpc' = [fpc EXCEPT !["key"] = "idle"]
    /\ Enter("key", "reset")
    /\ UNCHANGED <<flash, ram, addr, hal, failed, locked, sr, data, netip, sensor, then, frame,
                   restored, countVars>>

\* key turns in the erasing loop for good: FLASH_CR is locked, so nothing is erased.
Stuck ==
    /\ fpc["key"] \in {"scan", "erase", "erased"}
    /\ locked
    /\ ~Last("key")
    /\ ~BlankWord(addr["key"])

\* Mutant: the watchdog is fed by an interrupt, not by led_task.
Watchdog_Fed == FALSE /\ UNCHANGED vars

(* led_task has the lower priority and feeds the watchdog no more. *)
Watchdog ==
    /\ Stuck
    /\ TcpBlocked
    /\ Restart
    /\ UNCHANGED <<flash, countVars>>

-----------------------------------------------------------------------------

(* The supply fails and comes back. *)
PowerCut ==
    /\ cuts < MaxCuts
    /\ cuts' = cuts + 1
    /\ Restart
    /\ CutFlash(IF TcpBlocked THEN "key" ELSE "tcp")
    /\ UNCHANGED <<sets, presses>>

Tcp ==
    \/ BootNet
    \/ BootThread
    \/ Config
    \/ SetCommand
    \/ STMFLASH_Write("tcp") /\ UNCHANGED <<paramVars, countVars>>
    \/ TcpWritten
    \/ SystemReset("tcp")
    \/ FrameLogo
    \/ FrameHeader

Key ==
    \/ Copy
    \/ TcpBlocked /\ STMFLASH_Write("key") /\ UNCHANGED <<paramVars, countVars>>
    \/ KeyWritten
    \/ TcpBlocked /\ SystemReset("key")

Next == Tcp \/ LongPress \/ Key \/ Watchdog \/ PowerCut

(* tcp and key are scheduled; the watchdog bites. *)
Fairness == WF_vars(Tcp) /\ WF_vars(Key) /\ WF_vars(Watchdog)

Spec == Init /\ [][Next]_vars /\ Fairness

-----------------------------------------------------------------------------
(* What a client relies on. *)

Writing == pc["tcp"] = "write" \/ pc["key"] \in {"copy", "write"}

Atomic == INSTANCE AtomicParams
    WITH stored <- IF pc["tcp"] = "write" THEN ram
                   ELSE IF Writing THEN DefaultList ELSE flash,
         writing <- Writing,
         Default <- DefaultList

(* While key_task and the client leave each other alone, the scan, the erase and the
   words of STMFLASH_Write, and the copy to RAM before it, look like one atomic
   update, the restarts of setipa, setsiz and key_task lose nothing, and a power
   cut harms a block that is being written only. *)
AtomicStore == Atomic!Spec

(* The size in the logo of a frame, the one in its JPEG header (read from flash in
   between) and the one the sensor was set up for are the same. *)
FrameSizes ==
    pc["tcp"] = "wait" => frame.logo = sensor /\ frame.header = sensor

(* The network interface has the stored address, unless this boot found the block
   blank: setipa changes it under a running interface, and restarts. *)
AddressStored ==
    (TcpBlocked /\ pc["key"] = "idle" /\ ~restored)
        => netip = <<flash["iphi"], flash["iplo"]>>

(* Whatever was cut, the camera does not serve clients with a blank block (but for
   the moment in which key_task replaces it). *)
NeverRunsBlank == (TcpBlocked /\ pc["key"] = "idle") => flash["mode"] # Erased

(* A word is programmed only when it is blank, whichever task erased it and
   whichever interrupted the other, as long as no erase failed: a word written
   twice is spoilt. *)
ProgramsErasedOnly ==
    \A t \in Tasks :
        (fpc[t] = "programming" /\ ~locked /\ ~failed /\ (t = "tcp" \/ TcpBlocked))
            => BlankWord(addr[t])

(* On every path out of STMFLASH_Write, of two tasks inside it and of failing
   erases and words, flash ends locked, the HAL free and no error pending for the
   next caller. *)
LeavesLocked ==
    (\A t \in Tasks : fpc[t] \in {"idle", "done"}) => locked /\ hal = "free" /\ ~sr

(* When key_task prints that the defaults are set, flash holds them. *)
DefaultsRestored == pc["key"] = "reset" => flash = DefaultList

(* A long press restarts the camera, through the watchdog if tcp locked FLASH_CR
   under the erasing loop of key_task. *)
LongPressRestarts == pc["key"] = "copy" ~> pc["tcp"] = "boot_net"
=============================================================================
