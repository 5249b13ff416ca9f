---------------------------- MODULE CommandServer ----------------------------
(***************************************************************************)
(* Commands and replies: PollMessage (protocol.c) and the code that calls it *)
(* for every segment received and writes the reply (tcp_server_demo.c), over *)
(* connections that come and go and restarts of the camera.                  *)
(*                                                                          *)
(* The reply goes through two globals: ValidCmd, the text, and ParaLen, from *)
(* which the writer takes its length.  PollMessage leaves both alone for a   *)
(* segment it does not understand, and the writer writes all the same.       *)
(*                                                                          *)
(* A write of the flash block always succeeds here, at once (its steps,      *)
(* failures and interruptions: ParamStore).                                  *)
(***************************************************************************)
EXTENDS Command

CONSTANTS
    Commands,       \* what clients send: [cmd, para]
    DefaultList,    \* the fields' values in flash at first
    Garbage,        \* what an uninitialised int may hold
    MaxSegments,    \* bound: segments sent
    MaxRestarts     \* bound: connections lost and restarts not commanded

ASSUME CommandAssumption ==
    \A c \in Commands :
        /\ c.cmd \in SetCommands \cup GetCommands \cup {"gethep"}
        /\ c.para \in Parameter
ASSUME ListAssumption ==
    /\ DefaultList \in [Fields -> Seq(Nat)]
    /\ \A f \in Fields : DefaultList[f] \in [1 .. Elements[f] -> 0 .. (Modulus[f] - 1)]
    /\ DefaultList["size"] = <<640, 480>>
ASSUME GarbageAssumption == Garbage \subseteq Int /\ Garbage # {}
ASSUME BoundAssumption == MaxSegments \in Nat /\ MaxRestarts \in Nat

VARIABLES
    up,         \* a client is connected
    inbox,      \* segments received and not yet looked at
    cur,        \* the segment being answered, or <<>>
    list,       \* SaveParaList
    flash,      \* the block
    paraLen,    \* ParaLen
    validCmd,   \* ValidCmd: the command, Lenth and text of the reply in it
    reply,      \* the last reply written: [cmd, lenth, text, bytes], or <<>>
    unsent,     \* ghost: ValidCmd holds a reply that could not be written
    told,       \* ghost: what the set commands meant, field by field
    misread,    \* ghost: the fields whose last set command was not read as sent
    sends, restarts

serverVars == <<list, flash, paraLen, validCmd>>
vars == <<up, inbox, cur, list, flash, paraLen, validCmd, reply, unsent, told,
          misread, sends, restarts>>

\* Segments: the whole command, or a part of it.  No command is recognised in "none".
Whole(c) == [cmd |-> c.cmd, para |-> c.para, end |-> TRUE]
Cut(c, para) == [cmd |-> c.cmd, para |-> para, end |-> FALSE]
Nothing == [cmd |-> "none", para |-> NoText, end |-> FALSE]

\* The text a cut leaves of a parameter: none of it, or its first number.
Beginnings(p) ==
    {NoText} \cup (IF p.numbers = <<>> THEN {} ELSE {Scalar(p.numbers[1])})

Cleared == [cmd |-> "none", lenth |-> 0, text |-> NoText]

Init ==
    /\ up = FALSE /\ inbox = <<>> /\ cur = <<>>
    /\ list = DefaultList /\ flash = DefaultList
    /\ paraLen = 0 /\ validCmd = Cleared
    /\ reply = <<>> /\ unsent = FALSE
    /\ told = DefaultList /\ misread = {}
    /\ sends = 0 /\ restarts = 0

-----------------------------------------------------------------------------
(* The client and the network *)

Connect ==
    /\ ~up /\ cur = <<>>
    /\ up' = TRUE
    /\ UNCHANGED <<inbox, cur, serverVars, reply, unsent, told, misread, sends, restarts>>

(* A command arrives as one segment, or in two: then the second half begins with
   no header. *)
Send(c) ==
    /\ up /\ sends < MaxSegments
    /\ sends' = sends + 1
    /\ inbox' \in {Append(inbox, Whole(c))}
            \cup {inbox \o <<Cut(c, b), Nothing>> : b \in Beginnings(c.para)}
            \cup {inbox \o <<Nothing, Nothing>>}
    /\ UNCHANGED <<up, cur, serverVars, reply, unsent, told, misread, restarts>>

-----------------------------------------------------------------------------
(* PollMessage *)

\* No header, or no known command: nothing is touched.
Unknown(s) == s.cmd = "none" /\ UNCHANGED <<serverVars, told, misread>>

\* A parameter that is empty, too long or not followed by the end mark.
BadParameter(s) ==
    /\ s.cmd # "none"
    /\ GetParaLen(s.para) \in {0, 255} \/ ~s.end
    /\ paraLen' = GetParaLen(s.para)
    /\ UNCHANGED <<list, flash, validCmd, told, misread>>

Accepted(s) == s.cmd # "none" /\ s.end /\ GetParaLen(s.para) \notin {0, 255}

\* What a client means by a set command, as far as the field can hold it.
Meant(c) ==
    LET f == FieldOf[c.cmd] n == c.para.numbers
    IN IF f = "size" THEN Supported(n[1], n[2])
       ELSE [i \in 1 .. Elements[f] |-> n[i] % Modulus[f]]

(* A parameter that is read as it was sent: the numbers of its field, in brackets if
   there are several, none of ten digits or more, and nothing of an earlier parameter
   that would be read with them. *)
ReadAsSent(c, residue) ==
    LET n == c.para.numbers
    IN /\ Len(n) = Elements[FieldOf[c.cmd]]
       /\ \A i \in DOMAIN n : Short(n[i])
       /\ IF c.para.array THEN residue.more = <<>>
          ELSE Len(n) = 1 /\ residue.digits = <<>>

Tell(c, residue) ==
    LET f == FieldOf[c.cmd]
    IN IF ReadAsSent(c, residue)
         THEN told' = [told EXCEPT ![f] = Meant(c)] /\ misread' = misread \ {f}
         ELSE told' = told /\ misread' = misread \cup {f}

\* Mutant: the block is left for later.
StoreField_RamOnly(f, value) ==
    /\ list' = [list EXCEPT ![f] = value]
    /\ flash' = flash

StoreField(f, value) ==
    /\ list' = [list EXCEPT ![f] = value]
    /\ flash' = list'

\* What the elements of RtnValue that a field takes may hold at first.
Stack(f) == [1 .. Elements[f] -> Garbage]

\* Mutant: ParaLen stays the length of the parameter.
SetCommand_OldLen(s) ==
    \E residue \in Residues, scanned \in Garbage :
        LET found == Scan_Params(s.para, residue)
            f == FieldOf[s.cmd]
        IN /\ \E kept \in Stack(f) : StoreField(f, FieldValue(f, found, scanned, kept))
           /\ paraLen' = GetParaLen(s.para)
           /\ validCmd' = [cmd |-> s.cmd, lenth |-> 15 + Len(found) + 1, text |-> NoText]
           /\ Tell(s, residue)

(* The field is set and the block written.  The reply has one byte for a value, 0,
   whatever the parameter was. *)
SetCommand(s) ==
    \E residue \in Residues, scanned \in Garbage :
        LET found == Scan_Params(s.para, residue)
            f == FieldOf[s.cmd]
        IN /\ \E kept \in Stack(f) : StoreField(f, FieldValue(f, found, scanned, kept))
           /\ paraLen' = 26
           /\ validCmd' = [cmd |-> s.cmd, lenth |-> 15 + Len(found) + 1, text |-> NoText]
           /\ Tell(s, residue)

\* getver puts no text of its own into ValidCmd: its reply has what was there.
TextOf(s) ==
    CASE s.cmd = "getver" -> validCmd.text
      [] s.cmd = "gethep" -> HelpText
      [] OTHER -> FieldText(FieldOf[s.cmd], list[FieldOf[s.cmd]])

GetCommand(s) ==
    LET len == 25 + TextLen(TextOf(s))
    IN /\ paraLen' = len
       /\ validCmd' = [cmd |-> s.cmd, lenth |-> len - 9, text |-> TextOf(s)]
       /\ UNCHANGED <<list, flash, told, misread>>

\* setipa and setsiz restart the camera before the reply is written.
Restarting == {"setipa", "setsiz"}

\* RAM is lost, and the boot reads the block.
Boot ==
    /\ up' = FALSE /\ inbox' = <<>> /\ cur' = <<>>
    /\ list' = flash'
    /\ paraLen' = 0 /\ validCmd' = Cleared
    /\ unsent' = FALSE

\* Mutant: the restart comes before the block is written.
SetAndRestart_Early(s) ==
    /\ flash' = flash
    /\ Boot
    /\ \E residue \in Residues : Tell(s, residue)

SetAndRestart(s) ==
    \E residue \in Residues, scanned \in Garbage :
        LET found == Scan_Params(s.para, residue)
            f == FieldOf[s.cmd]
        IN /\ \E kept \in Stack(f) :
                 flash' = [list EXCEPT ![f] = FieldValue(f, found, scanned, kept)]
           /\ Tell(s, residue)
           /\ Boot

-----------------------------------------------------------------------------
(* tcp_server_thread *)

Receive ==
    /\ up /\ cur = <<>> /\ inbox # <<>>
    /\ LET s == Head(inbox)
       IN IF Accepted(s) /\ s.cmd \in Restarting
            THEN SetAndRestart(s)
            ELSE /\ \/ Unknown(s)
                    \/ BadParameter(s)
                    \/ Accepted(s) /\ s.cmd \in SetCommands /\ SetCommand(s)
                    \/ Accepted(s) /\ s.cmd \notin SetCommands /\ GetCommand(s)
                 /\ cur' = <<s>>
                 /\ inbox' = Tail(inbox)
                 /\ UNCHANGED <<up, unsent>>
    /\ UNCHANGED <<reply, sends, restarts>>

\* Mutant: the text stays after it was sent.
Reply_NotCleared ==
    /\ up /\ cur # <<>>
    /\ reply' = [cmd |-> validCmd.cmd, lenth |-> validCmd.lenth,
                 text |-> validCmd.text, bytes |-> paraLen + 3]
    /\ cur' = <<>>
    /\ unsent' = FALSE
    /\ UNCHANGED <<up, inbox, serverVars, told, misread, sends, restarts>>

\* netconn_write(newconn, ValidCmd, ParaLen+3, ...); memset(ValidCmd, 0, 100)
Reply ==
    /\ up /\ cur # <<>>
    /\ reply' = [cmd |-> validCmd.cmd, lenth |-> validCmd.lenth,
                 text |-> validCmd.text, bytes |-> paraLen + 3]
    /\ validCmd' = Cleared
    /\ cur' = <<>>
    /\ unsent' = FALSE
    /\ UNCHANGED <<up, inbox, list, flash, paraLen, told, misread, sends, restarts>>

(* The client is gone: ERR_CLSD or ERR_RST, of the write of the reply or of another
   one.  The loop is left, ValidCmd stays. *)
ConnectionLost ==
    /\ up /\ restarts < MaxRestarts
    /\ restarts' = restarts + 1
    /\ up' = FALSE /\ inbox' = <<>> /\ cur' = <<>>
    /\ unsent' = (unsent \/ cur # <<>>)
    /\ UNCHANGED <<serverVars, reply, told, misread, sends>>

\* MT9D111_Greate_Header reads the block for every frame.
FrameHeader ==
    /\ up /\ cur = <<>>
    /\ list' = flash
    /\ UNCHANGED <<up, inbox, cur, flash, paraLen, validCmd, reply, unsent, told,
                   misread, sends, restarts>>

Restart ==
    /\ restarts < MaxRestarts
    /\ restarts' = restarts + 1
    /\ flash' = flash
    /\ Boot
    /\ UNCHANGED <<reply, told, misread, sends>>

Next ==
    \/ Connect \/ (\E c \in Commands : Send(c))
    \/ Receive \/ Reply \/ ConnectionLost \/ FrameHeader \/ Restart

Spec == Init /\ [][Next]_vars

-----------------------------------------------------------------------------
(* Properties *)

FieldValues(f) == [1 .. Elements[f] -> 0 .. (Modulus[f] - 1)]

(* Every variable has its type: the fields fit SavePara_TypeDef, and ParaLen is the
   length of a parameter, of a reply that fits ValidCmd[100], or 0xff. *)
TypeOK ==
    /\ up \in BOOLEAN /\ unsent \in BOOLEAN
    /\ Len(inbox) <= 2 * MaxSegments
    /\ Len(cur) <= 1
    /\ \A f \in Fields : {list[f], flash[f], told[f]} \subseteq FieldValues(f)
    /\ paraLen \in 0 .. 20 \cup 25 .. 97 \cup {255}
    /\ misread \subseteq Fields
    /\ sends \in 0 .. MaxSegments /\ restarts \in 0 .. MaxRestarts

(* The block holds what the commands meant, and SaveParaList what the block holds,
   over cut commands, lost connections and restarts (protocol.c:133-176, 211-214).
   Except for a field whose last command was not read as sent: of that one, whatever
   was stored, no other field is touched (protocol.c:127, 297-361). *)
StoredAsSent ==
    /\ list = flash
    /\ \A f \in Fields \ misread : flash[f] = told[f]

(* The size is one the sensor and the header are set up for: within 1024x768, 4:3
   but for rounding (Pro_setsiz, protocol.c:407-439).  Except after a setsiz that was
   not read as sent: with fewer than two numbers a side is what the stack held. *)
SizeSupported ==
    "size" \notin misread =>
        LET w == flash["size"][1] h == flash["size"][2]
        IN w <= 1024 /\ h <= 768 /\ 4 * h <= 3 * w + 2 /\ 3 * w <= 4 * h + 3

\* The segment was read as sent, as far as it was for a field.
Understood(s) ==
    Accepted(s) /\ (s.cmd \in SetCommands => FieldOf[s.cmd] \notin misread)

(* Lenth counts the bytes of the reply that follow it, though it is computed in
   PollMessage from the numbers found and the length written in
   tcp_server_demo.c:327 from ParaLen (protocol.c:166-203).  Except for a set command
   that was not read as sent: the reply has one byte for its value whatever was found,
   and Lenth counts another number of them. *)
ReplyFramed ==
    [][(cur # <<>> /\ cur' = <<>> /\ up' /\ Understood(cur[1]))
          => reply'.bytes = reply'.lenth + 12]_vars

(* The text that a reply to this segment has. *)
RightText(s) ==
    CASE s.cmd \in GetCommands \ {"getver"} ->
            FieldText(FieldOf[s.cmd], flash[FieldOf[s.cmd]])
      [] s.cmd = "gethep" -> HelpText
      [] OTHER -> NoText

Answers(r, s) ==
    IF Accepted(s) THEN r.cmd = s.cmd /\ r.text = RightText(s)
    ELSE r.cmd = "none" /\ r.text = NoText

(* A reply is the reply to the segment just received and names the value in the
   block; a segment that is not understood gets no command's reply.  Except that
   a reply which could not be written is still there (tcp_server_demo.c:326-336). *)
RepliesAnswer ==
    [][(cur # <<>> /\ cur' = <<>> /\ up' /\ ~unsent) => Answers(reply', cur[1])]_vars

=============================================================================
