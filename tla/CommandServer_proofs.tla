------------------------- MODULE CommandServer_proofs -------------------------
(***************************************************************************)
(* The properties of CommandServer, for every set of commands, any number of *)
(* segments, cuts, losses and restarts.                                     *)
(*                                                                          *)
(* RepliesAnswer needs nothing of the commands: between two segments         *)
(* ValidCmd is clear, and while one is being answered it answers that one,   *)
(* unless a reply is left over from a lost connection; a get command answers *)
(* from SaveParaList, which is what the block holds.                        *)
(*                                                                          *)
(* The other properties except a field whose last set command was not read  *)
(* as sent (misread).  Whatever the text, and whatever follows it on the     *)
(* stack, Scan_Params returns numbers and the field gets a value within its  *)
(* width; of a parameter that is read as sent it returns the numbers, and    *)
(* with what is known of the width of a field the reply fits and counts      *)
(* itself.                                                                  *)
(***************************************************************************)
EXTENDS CommandServer, FiniteSetTheorems, TLAPS

AllCommands == SetCommands \cup GetCommands \cup {"gethep"}
Segment == [cmd : AllCommands \cup {"none"}, para : Parameter, end : BOOLEAN]

\* A segment with an end mark is a whole command.
Sent == {s \in Segment : s.end => \E c \in Commands : s = Whole(c)}

\* What is received was sent; at most one segment is being answered.
Received == inbox \in Seq(Sent) /\ (cur = <<>> \/ \E s \in Sent : cur = <<s>>)

RamIsBlock == list = flash

Pending ==
    ~unsent => IF cur = <<>> THEN validCmd = Cleared ELSE Answers(validCmd, cur[1])

IInv == Received /\ RamIsBlock /\ Pending

-----------------------------------------------------------------------------
(* What is left in ValidCmd when nothing is understood answers with nothing. *)
LEMMA ClearedAnswersNothing ==
    ASSUME NEW s, ~Accepted(s)
    PROVE  Answers(Cleared, s)
BY DEF Answers, Cleared

(* A set command leaves a reply without text (protocol.c:166-176). *)
LEMMA SetAnswers ==
    ASSUME NEW s \in Segment, Accepted(s), s.cmd \in SetCommands, SetCommand(s)
    PROVE  Answers(validCmd, s)' /\ list' = flash'
<1>1. validCmd'.cmd = s.cmd /\ validCmd'.text = NoText /\ list' = flash'
  BY DEF SetCommand, StoreField
<1>2. s.cmd \notin GetCommands /\ s.cmd # "gethep"
  BY DEF SetCommands, GetCommands
<1> QED
  BY <1>1, <1>2 DEF Answers, RightText

(* A get command puts its answer into a clear ValidCmd (protocol.c:146-196). *)
LEMMA GetAnswers ==
    ASSUME NEW s \in Segment, Accepted(s), s.cmd \notin SetCommands, GetCommand(s),
           list = flash, unsent \/ validCmd = Cleared
    PROVE  list' = flash' /\ (~unsent => Answers(validCmd, s)')
<1>1. validCmd'.cmd = s.cmd
  BY DEF GetCommand
<1>2. validCmd'.text = TextOf(s)
  BY DEF GetCommand
<1>3. list' = flash' /\ flash' = flash
  BY DEF GetCommand
<1>4. s.cmd \in GetCommands \cup {"gethep"}
  BY DEF Segment, AllCommands, Accepted
<1>5. ASSUME ~unsent PROVE (validCmd'.text = RightText(s)')
  <2>1. CASE s.cmd = "gethep"
    BY <1>2, <2>1 DEF RightText, GetCommands, TextOf
  <2>2. CASE s.cmd = "getver"
    BY <1>2, <2>2, <1>5 DEF RightText, GetCommands, TextOf, Cleared
  <2>3. CASE s.cmd \in GetCommands \ {"getver"}
    <3>1. s.cmd # "gethep" /\ s.cmd # "getver"
      BY <2>3 DEF GetCommands
    <3> QED
      BY <1>2, <1>3, <2>3, <3>1 DEF RightText, TextOf
  <2> QED
    BY <1>4, <2>1, <2>2, <2>3
<1> QED
  BY <1>1, <1>3, <1>5 DEF Answers

-----------------------------------------------------------------------------
LEMMA SegmentsSent ==
    ASSUME NEW c \in Commands
    PROVE  /\ Whole(c) \in Sent /\ Nothing \in Sent
           /\ \A b \in Beginnings(c.para) : Cut(c, b) \in Sent
<1>1. c.cmd \in AllCommands /\ c.para \in Parameter
  BY CommandAssumption DEF AllCommands
<1>2. NoText \in Parameter
  BY DEF NoText, Parameter
<1>3. c.para.numbers # <<>> => Scalar(c.para.numbers[1]) \in Parameter
  <2> SUFFICES ASSUME c.para.numbers # <<>>
               PROVE  c.para.numbers[1] \in Nat
    BY DEF Scalar, Parameter
  <2>1. c.para.numbers \in Seq(Nat)
    BY <1>1 DEF Parameter
  <2> QED
    BY <2>1
<1> QED
  BY <1>1, <1>2, <1>3 DEF Whole, Nothing, Cut, Beginnings, Segment, Sent

LEMMA Initially == Init => IInv
BY DEF Init, IInv, Received, RamIsBlock, Pending

(* A restart clears ValidCmd and reads the block. *)
LEMMA BootRestores == ASSUME Boot PROVE IInv'
BY DEF Boot, IInv, Received, RamIsBlock, Pending

LEMMA ReceiveKeeps ==
    ASSUME IInv, Receive
    PROVE  IInv'
<1>1. cur = <<>> /\ Head(inbox) \in Sent /\ Tail(inbox) \in Seq(Sent)
  BY DEF Receive, IInv, Received
<1>0. PICK s \in Sent : s = Head(inbox)
  BY <1>1
<1>5. s \in Segment
  BY DEF Sent
<1>2. list = flash /\ (unsent \/ validCmd = Cleared)
  BY <1>1 DEF IInv, RamIsBlock, Pending
<1>3. CASE Accepted(s) /\ s.cmd \in Restarting
  <2>1. SetAndRestart(s)
    BY <1>0, <1>3 DEF Receive
  <2>2. Boot
    BY <2>1 DEF SetAndRestart
  <2> QED
    BY <2>2, BootRestores
<1>4. CASE ~(Accepted(s) /\ s.cmd \in Restarting)
  <2>1. /\ cur' = <<s>> /\ inbox' = Tail(inbox) /\ unsent' = unsent
        /\ \/ Unknown(s)
           \/ BadParameter(s)
           \/ Accepted(s) /\ s.cmd \in SetCommands /\ SetCommand(s)
           \/ Accepted(s) /\ s.cmd \notin SetCommands /\ GetCommand(s)
    BY <1>0, <1>4 DEF Receive
  <2>2. list' = flash' /\ (~unsent => Answers(validCmd, s)')
    <3>1. CASE Unknown(s)
      <4>1. ~Accepted(s)
        BY <3>1 DEF Unknown, Accepted
      <4> QED
        BY <1>2, <3>1, <4>1, ClearedAnswersNothing DEF Unknown, serverVars, Answers, RightText
    <3>2. CASE BadParameter(s)
      <4>1. ~Accepted(s)
        BY <3>2 DEF BadParameter, Accepted
      <4> QED
        BY <1>2, <3>2, <4>1 DEF BadParameter, Answers, Cleared
    <3>3. CASE Accepted(s) /\ s.cmd \in SetCommands /\ SetCommand(s)
      BY <1>5, <3>3, SetAnswers
    <3>4. CASE Accepted(s) /\ s.cmd \notin SetCommands /\ GetCommand(s)
      BY <1>2, <1>5, <3>4, GetAnswers
    <3> QED
      BY <2>1, <3>1, <3>2, <3>3, <3>4
  <2> QED
    BY <1>1, <2>1, <2>2 DEF IInv, Received, RamIsBlock, Pending
<1> QED
  BY <1>3, <1>4

LEMMA StepsKeep == IInv /\ [Next]_vars => IInv'
<1> SUFFICES ASSUME IInv, [Next]_vars PROVE IInv'
  OBVIOUS
<1> USE DEF IInv, Received, RamIsBlock, Pending
<1>1. CASE Connect
  BY <1>1 DEF Connect, serverVars, Answers, RightText
<1>2. ASSUME NEW c \in Commands, Send(c) PROVE IInv'
  <2>1. inbox' \in Seq(Sent)
    <3>1. CASE inbox' = Append(inbox, Whole(c))
      BY <3>1, SegmentsSent
    <3>2. ASSUME NEW b \in Beginnings(c.para), inbox' = inbox \o <<Cut(c, b), Nothing>>
          PROVE  inbox' \in Seq(Sent)
      BY <3>2, SegmentsSent
    <3>3. CASE inbox' = inbox \o <<Nothing, Nothing>>
      BY <3>3, SegmentsSent
    <3> QED
      BY <1>2, <3>1, <3>2, <3>3 DEF Send
  <2> QED
    BY <1>2, <2>1 DEF Send, serverVars, Answers, RightText
<1>3. CASE Receive
  BY <1>3, ReceiveKeeps
<1>4. CASE Reply
  BY <1>4 DEF Reply
<1>5. CASE ConnectionLost
  <2>1. ~unsent' => ~unsent /\ cur = <<>>
    BY <1>5, Zenon DEF ConnectionLost
  <2>2. inbox' \in Seq(Sent) /\ cur' = <<>> /\ list' = flash' /\ validCmd' = validCmd
    BY <1>5 DEF ConnectionLost, serverVars
  <2> QED
    BY <2>1, <2>2
<1>6. CASE FrameHeader
  BY <1>6 DEF FrameHeader
<1>7. CASE Restart
  BY <1>7, BootRestores DEF Restart
<1>8. CASE UNCHANGED vars
  BY <1>8 DEF vars, Answers, RightText
<1> QED
  BY <1>1, <1>2, <1>3, <1>4, <1>5, <1>6, <1>7, <1>8 DEF Next

(* SaveParaList is what the block holds whenever a segment is looked at. *)
THEOREM InvariantHolds == Spec => []IInv
BY Initially, StepsKeep, PTL DEF Spec

(* The reply just written answers the segment it is written for, whatever was sent,
   cut or lost before, unless one could not be written. *)
THEOREM RepliesAreAnswers == Spec => RepliesAnswer
<1>1. IInv /\ [Next]_vars
        => [(cur # <<>> /\ cur' = <<>> /\ up' /\ ~unsent) => Answers(reply', cur[1])]_vars
  <2> SUFFICES ASSUME IInv, Next, cur # <<>>, cur' = <<>>, up', ~unsent
               PROVE  Answers(reply', cur[1])
    OBVIOUS
  <2>1. Reply
    BY DEF Next, Connect, Send, Receive, ConnectionLost, FrameHeader, Restart, Boot
  <2>2. Answers(validCmd, cur[1])
    BY DEF IInv, Pending
  <2> QED
    BY <2>1, <2>2 DEF Reply, Answers
<1> QED
  BY <1>1, InvariantHolds, PTL DEF Spec, RepliesAnswer

-----------------------------------------------------------------------------
(* Whatever size is asked for, Pro_setsiz makes it one that fits the sensor, of the
   ratio 4:3 but for rounding (protocol.c:414-429). *)
THEOREM SizesFit ==
    ASSUME NEW w \in Nat, NEW h \in Nat
    PROVE  /\ Supported(w, h)[1] \in 0 .. 1024 /\ Supported(w, h)[2] \in 0 .. 768
           /\ 4 * Supported(w, h)[2] <= 3 * Supported(w, h)[1] + 2
           /\ 3 * Supported(w, h)[1] <= 4 * Supported(w, h)[2] + 3
<1> DEFINE w1 == AtMost(w, 1024)
           h1 == AtMost(h, 768)
<1>1. w1 \in 0 .. 1024 /\ h1 \in 0 .. 768
  BY DEF AtMost
<1>2. Supported(w, h) = IF 4 * h1 >= 3 * w1 THEN <<w1, (3 * w1) \div 4>>
                        ELSE <<(4 * h1) \div 3, h1>>
  BY DEF Supported
<1> HIDE DEF w1, h1
<1>3. CASE 4 * h1 >= 3 * w1
  <2>1. Supported(w, h)[1] = w1 /\ Supported(w, h)[2] = (3 * w1) \div 4
    BY <1>2, <1>3
  <2>2. /\ (3 * w1) \div 4 \in 0 .. 768
        /\ 4 * ((3 * w1) \div 4) <= 3 * w1 /\ 3 * w1 <= 4 * ((3 * w1) \div 4) + 3
    BY <1>1
  <2> QED
    BY <1>1, <2>1, <2>2
<1>4. CASE ~(4 * h1 >= 3 * w1)
  <2>1. Supported(w, h)[1] = (4 * h1) \div 3 /\ Supported(w, h)[2] = h1
    BY <1>2, <1>4
  <2>2. /\ (4 * h1) \div 3 \in 0 .. 1024
        /\ 3 * ((4 * h1) \div 3) <= 4 * h1 /\ 4 * h1 <= 3 * ((4 * h1) \div 3) + 2
    BY <1>1
  <2> QED
    BY <1>1, <2>1, <2>2
<1> QED
  BY <1>3, <1>4

-----------------------------------------------------------------------------
(* What a reply can say. *)
Texts == {NoText, HelpText}
         \cup UNION {{FieldText(f, v) : v \in FieldValues(f)} : f \in Fields}

(* The powers of ten the prover computes. *)
LEMMA Powers ==
    /\ 10^0 = 1 /\ 10^1 = 10 /\ 10^2 = 100 /\ 10^3 = 1000 /\ 10^4 = 10000 /\ 10^5 = 100000
    /\ 10^6 = 1000000 /\ 10^7 = 10000000 /\ 10^8 = 100000000 /\ 10^9 = 1000000000
<1>1. 10^0 = 1 /\ 10^1 = 10 /\ 10^2 = 100 /\ 10^3 = 1000 /\ 10^4 = 10000 /\ 10^5 = 100000
  BY SMT
<1>2. 10^6 = 1000000 
  BY SMT
<1>3. 10^7 = 10000000
  BY SMT
<1>4. 10^8 = 100000000
  BY SMT
<1>5. 10^9 = 1000000000
  BY SMT
<1> QED
  BY <1>1, <1>2, <1>3, <1>4, <1>5

LEMMA PowersTyped ==
    ASSUME NEW t \in 0 .. 8
    PROVE  10^t \in Nat
<1>0. CASE t = 0
  BY <1>0, Powers
<1>1. CASE t = 1
  BY <1>1, Powers
<1>2. CASE t = 2
  BY <1>2, Powers
<1>3. CASE t = 3
  BY <1>3, Powers
<1>4. CASE t = 4
  BY <1>4, Powers
<1>5. CASE t = 5
  BY <1>5, Powers
<1>6. CASE t = 6
  BY <1>6, Powers
<1>7. CASE t = 7
  BY <1>7, Powers
<1>8. CASE t = 8
  BY <1>8, Powers
<1> QED
  BY <1>0, <1>1, <1>2, <1>3, <1>4, <1>5, <1>6, <1>7, <1>8

(* A number has at most ten characters, a u16 five (protocol.c:316). *)
LEMMA WidthBounds ==
    ASSUME NEW n \in Nat
    PROVE  Width(n) \in 1 .. 10 /\ (n < 100000 => Width(n) \in 1 .. 5)
<1> DEFINE D(k) == 10^(k - 1) <= n /\ (k < 10 => n < 10^k)
<1>1. CASE n = 0
  BY <1>1 DEF Width
<1>2. CASE n # 0
  <2>1. \E k \in 1 .. 10 : D(k)
    <3>1. /\ D(1) <=> 1 <= n /\ n < 10
          /\ D(2) <=> 10 <= n /\ n < 100
          /\ D(3) <=> 100 <= n /\ n < 1000
          /\ D(4) <=> 1000 <= n /\ n < 10000
          /\ D(5) <=> 10000 <= n /\ n < 100000
      BY Powers
    <3>2. /\ D(6) <=> 100000 <= n /\ n < 1000000
          /\ D(7) <=> 1000000 <= n /\ n < 10000000
          /\ D(8) <=> 10000000 <= n /\ n < 100000000
          /\ D(9) <=> 100000000 <= n /\ n < 1000000000
          /\ D(10) <=> 1000000000 <= n
      BY Powers
    <3> HIDE DEF D
    <3>3. \E k \in {1, 2, 3, 4, 5, 6, 7, 8, 9, 10} : D(k)
      BY <1>2, <3>1, <3>2
    <3> QED
      BY <3>3
  <2>2. Width(n) \in 1 .. 10 /\ D(Width(n))
    <3>1. Width(n) = CHOOSE k \in 1 .. 10 : D(k)
      BY <1>2 DEF Width
    <3> HIDE DEF D
    <3> QED
      BY <2>1, <3>1
  <2> DEFINE m == Width(n) - 1
  <2>3. m \in 0 .. 9 /\ 10^m <= n /\ Width(n) = m + 1
    BY <2>2
  <2> HIDE DEF m
  <2>4. m = 5 => 100000 <= n
    BY <2>3, Powers
  <2>5. m = 6 => 1000000 <= n
    BY <2>3, Powers
  <2>6. m = 7 => 10000000 <= n
    BY <2>3, Powers
  <2>7. m = 8 => 100000000 <= n
    BY <2>3, Powers
  <2>8. m = 9 => 1000000000 <= n
    BY <2>3, Powers
  <2> QED
    BY <2>3, <2>4, <2>5, <2>6, <2>7, <2>8
<1> QED
  BY <1>1, <1>2

(* Numbers of at most b digits have at most b digits each. *)
LEMMA DigitsCounted ==
    ASSUME NEW s \in Seq(Nat)
    PROVE  /\ Cardinality(Digits(s)) \in Nat
           /\ \A b \in 1 .. 10 : (\A i \in 1 .. Len(s) : Width(s[i]) \in 1 .. b)
                                    => Cardinality(Digits(s)) <= Len(s) * b
<1>1. Len(s) \in Nat /\ DOMAIN s = 1 .. Len(s)
  OBVIOUS
<1>2. \A n \in Nat : IsFiniteSet(1 .. n) /\ Cardinality(1 .. n) = n
  BY FS_Interval
<1>3. \A b \in 1 .. 10 : /\ IsFiniteSet((1 .. Len(s)) \X (1 .. b))
                         /\ Cardinality((1 .. Len(s)) \X (1 .. b)) = Len(s) * b
  <2> SUFFICES ASSUME NEW b \in 1 .. 10
               PROVE  /\ IsFiniteSet((1 .. Len(s)) \X (1 .. b))
                      /\ Cardinality((1 .. Len(s)) \X (1 .. b)) = Len(s) * b
    OBVIOUS
  <2> DEFINE S == 1 .. Len(s)
             T == 1 .. b
  <2>1. IsFiniteSet(S) /\ IsFiniteSet(T) /\ Cardinality(S) = Len(s) /\ Cardinality(T) = b
    BY <1>1, <1>2
  <2> HIDE DEF S, T
  <2>2. IsFiniteSet(S \X T) /\ Cardinality(S \X T) = Cardinality(S) * Cardinality(T)
    BY <2>1, FS_Product
  <2> QED
    BY <2>1, <2>2 DEF S, T
<1>4. \A b \in 1 .. 10 : (\A i \in 1 .. Len(s) : Width(s[i]) \in 1 .. b)
                            => Digits(s) \subseteq (1 .. Len(s)) \X (1 .. b)
  <2> SUFFICES ASSUME NEW b \in 1 .. 10, \A i \in 1 .. Len(s) : Width(s[i]) \in 1 .. b,
                      NEW x \in Digits(s)
               PROVE  x \in (1 .. Len(s)) \X (1 .. b)
    OBVIOUS
  <2>1. /\ x \in (1 .. Len(s)) \X (1 .. 10)
        /\ x[2] <= Width(s[x[1]])
    BY <1>1 DEF Digits
  <2>2. PICK i \in 1 .. Len(s), k \in 1 .. 10 : x = <<i, k>>
    BY <2>1
  <2>3. k <= Width(s[i]) /\ Width(s[i]) \in 1 .. b
    BY <2>1, <2>2
  <2> QED
    BY <2>2, <2>3
<1>5. IsFiniteSet(Digits(s))
  <2>1. Digits(s) \in SUBSET ((1 .. Len(s)) \X (1 .. 10))
    BY <1>1 DEF Digits
  <2>2. IsFiniteSet((1 .. Len(s)) \X (1 .. 10))
    BY <1>3
  <2> QED
    BY <2>1, <2>2, FS_Subset
<1>6. ASSUME NEW b \in 1 .. 10, \A i \in 1 .. Len(s) : Width(s[i]) \in 1 .. b
      PROVE  Cardinality(Digits(s)) <= Len(s) * b
  <2> DEFINE P == (1 .. Len(s)) \X (1 .. b)
  <2>1. Digits(s) \in SUBSET P /\ IsFiniteSet(P) /\ Cardinality(P) = Len(s) * b
    BY <1>3, <1>4, <1>6
  <2> HIDE DEF P
  <2>2. Cardinality(Digits(s)) <= Cardinality(P)
    BY <2>1, FS_Subset
  <2> QED
    BY <2>1, <2>2
<1>7. Cardinality(Digits(s)) \in Nat
  BY <1>5, FS_CardinalityType
<1> QED
  BY <1>6, <1>7

(* Where every number is short, Scan_Params takes them all, in their order. *)
LEMMA AllTaken ==
    ASSUME NEW s \in Seq(Nat), \A i \in 1 .. Len(s) : Short(s[i])
    PROVE  Taken(s) = s
<1> DEFINE at == {i \in DOMAIN s : Short(s[i])}
<1>1. Len(s) \in Nat /\ DOMAIN s = 1 .. Len(s) /\ at = 1 .. Len(s)
  OBVIOUS
<1>2. \A n \in Nat : Cardinality(1 .. n) = n
  BY FS_Interval
<1>3. Taken(s) = [k \in 1 .. Cardinality(at) |->
                     s[CHOOSE i \in at : Cardinality({j \in at : j <= i}) = k]]
  BY DEF Taken
<1> HIDE DEF at
<1>4. \A i \in at : Cardinality({j \in at : j <= i}) = i
  <2> SUFFICES ASSUME NEW i \in at PROVE Cardinality({j \in at : j <= i}) = i
    OBVIOUS
  <2>1. i \in Nat /\ {j \in at : j <= i} = 1 .. i
    BY <1>1
  <2> QED
    BY <1>2, <2>1
<1>5. \A k \in at : (CHOOSE i \in at : Cardinality({j \in at : j <= i}) = k) = k
  BY <1>4
<1>6. Cardinality(at) = Len(s)
  BY <1>1, <1>2
<1>7. Taken(s) = [k \in 1 .. Len(s) |-> s[k]]
  BY <1>1, <1>3, <1>5, <1>6
<1> QED
  BY <1>1, <1>7

(* Of any sequence Taken returns some of its numbers: the position of one among those
   taken is an injection into as many positions, so each position has a number. *)
LEMMA TakenTyped ==
    ASSUME NEW s \in Seq(Nat)
    PROVE  Taken(s) \in Seq(Nat)
<1> DEFINE at == {i \in DOMAIN s : Short(s[i])}
           upto(i) == {j \in at : j <= i}
           rank == [i \in at |-> Cardinality(upto(i))]
           size == Cardinality(at)
<1>1. Len(s) \in Nat /\ DOMAIN s = 1 .. Len(s) /\ \A i \in DOMAIN s : s[i] \in Nat
  OBVIOUS
<1>2. Taken(s) = [k \in 1 .. size |-> s[CHOOSE i \in at : Cardinality(upto(i)) = k]]
  BY DEF Taken
<1>3. IsFiniteSet(at)
  <2>1. IsFiniteSet(1 .. Len(s))
    BY <1>1, FS_Interval
  <2>2. at \subseteq 1 .. Len(s)
    BY <1>1
  <2> QED
    BY <2>1, <2>2, FS_Subset
<1>4. at \subseteq Nat /\ at \subseteq DOMAIN s
  BY <1>1
<1> HIDE DEF at
<1>5. size \in Nat
  BY <1>3, FS_CardinalityType
<1>6. \A i \in at : /\ IsFiniteSet(upto(i)) /\ Cardinality(upto(i)) \in Nat
                    /\ Cardinality(upto(i)) <= size
  <2> TAKE i \in at
  <2>1. upto(i) \in SUBSET at
    OBVIOUS
  <2> HIDE DEF upto
  <2> QED
    BY <1>3, <2>1, FS_Subset, FS_CardinalityType
<1>7. \A i \in at : Cardinality(upto(i)) >= 1
  <2> TAKE i \in at
  <2>1. i \in upto(i)
    BY <1>4
  <2> HIDE DEF upto
  <2>2. upto(i) # {}
    BY <2>1
  <2>3. Cardinality(upto(i)) # 0
    BY <1>6, <2>2, FS_EmptySet
  <2> QED
    BY <1>6, <2>3
<1>8. \A i, j \in at : Cardinality(upto(i)) = Cardinality(upto(j)) => i = j
  <2>1. ASSUME NEW i \in at, NEW j \in at, i < j
        PROVE  Cardinality(upto(i)) # Cardinality(upto(j))
    <3>0. i \in Nat /\ j \in Nat /\ \A k \in at : k \in Nat
      BY <1>4
    <3>2. \A k \in upto(i) : k \in upto(j)
      BY <2>1, <3>0
    <3>3. j \in upto(j) /\ j \notin upto(i)
      BY <2>1, <3>0
    <3>1. upto(i) \in SUBSET upto(j) /\ j \in upto(j) /\ j \notin upto(i)
      BY <3>2, <3>3
    <3> HIDE DEF upto
    <3> QED
      BY <1>6, <3>1, FS_Subset
  <2>2. \A i, j \in at : i = j \/ i < j \/ j < i
    BY <1>4
  <2> QED
    BY <2>1, <2>2
<1>9. rank \in Injection(at, 1 .. size)
  <2> HIDE DEF upto, size
  <2>1. \A i \in at : Cardinality(upto(i)) \in 1 .. size
    BY <1>5, <1>6, <1>7
  <2> QED
    BY <1>8, <2>1 DEF Injection, IsInjective
<1>10. rank \in Surjection(at, 1 .. size)
  <2>1. IsFiniteSet(1 .. size) /\ Cardinality(1 .. size) = size
    BY <1>5, FS_Interval
  <2> HIDE DEF rank
  <2> QED
    BY <1>9, <2>1, FS_Injection
<1>11. \A k \in 1 .. size : \E i \in at : Cardinality(upto(i)) = k
  <2> HIDE DEF upto
  <2> QED
    BY <1>10 DEF Surjection
<1>12. \A k \in 1 .. size : s[CHOOSE i \in at : Cardinality(upto(i)) = k] \in Nat
  <2> HIDE DEF upto
  <2> QED
    BY <1>1, <1>4, <1>11
<1> DEFINE x(k) == s[CHOOSE i \in at : Cardinality(upto(i)) = k]
<1>13. Taken(s) = [k \in 1 .. size |-> x(k)] /\ \A k \in 1 .. size : x(k) \in Nat
  BY <1>2, <1>12, Zenon
<1> HIDE DEF size, x
<1> QED
  BY <1>5, <1>13

-----------------------------------------------------------------------------
(* Every command is about a field, and the two that restart about ip and size. *)
LEMMA FieldsOfCommands ==
    /\ \A c \in SetCommands : FieldOf[c] \in Fields
    /\ \A c \in GetCommands \ {"getver"} : FieldOf[c] \in Fields
    /\ \A c \in SetCommands : FieldOf[c] \in {"ip", "size"} <=> c \in Restarting
<1>1. \A c \in SetCommands : FieldOf[c] \in Fields
  BY DEF SetCommands, FieldOf, Fields
<1>2. \A c \in GetCommands \ {"getver"} : FieldOf[c] \in Fields
  BY DEF GetCommands, FieldOf, Fields
<1>3. \A c \in SetCommands : FieldOf[c] \in {"ip", "size"} <=> c \in Restarting
  BY DEF SetCommands, FieldOf, Restarting
<1> QED
  BY <1>1, <1>2, <1>3

(* The shape of the fields. *)
LEMMA FieldSizes ==
    ASSUME NEW f \in Fields
    PROVE  /\ Elements[f] \in {1, 2, 4} /\ Modulus[f] \in {256, 65536}
           /\ f \notin {"ip", "size"} => Elements[f] = 1
           /\ f = "size" => Elements[f] = 2 /\ Modulus[f] = 65536
           /\ f = "ip" => Elements[f] = 4 /\ Modulus[f] = 256
BY DEF Elements, Modulus, Fields

(* The list of commands is not mistaken for a parameter. *)
LEMMA HelpIsNoParameter == \A p \in Parameter : p # HelpText
<1> SUFFICES ASSUME NEW p \in Parameter PROVE p # HelpText
  OBVIOUS
<1>1. DOMAIN p = {"array", "numbers"}
  BY DEF Parameter
<1>2. DOMAIN HelpText = {"help"}
  BY DEF HelpText
<1> QED
  BY <1>1, <1>2

(* A text has a length. *)
LEMMA TextLenIsNat ==
    ASSUME NEW p \in Parameter
    PROVE  TextLen(p) \in Nat
<1>1. p.numbers \in Seq(Nat) /\ p # HelpText
  BY HelpIsNoParameter DEF Parameter
<1>2. Cardinality(Digits(p.numbers)) \in Nat
  BY <1>1, DigitsCounted
<1>3. p.numbers # <<>> => Len(p.numbers) - 1 \in Nat
  BY <1>1
<1> QED
  BY <1>1, <1>2, <1>3 DEF TextLen

(* A value of a field is a sequence of as many numbers as the field has. *)
LEMMA ValuesFit ==
    ASSUME NEW f \in Fields, NEW v \in FieldValues(f)
    PROVE  /\ v \in Seq(Nat) /\ Len(v) = Elements[f] /\ Len(v) \in {1, 2, 4}
           /\ \A i \in 1 .. Len(v) : v[i] < Modulus[f]
<1>1. Elements[f] \in {1, 2, 4} /\ Modulus[f] \in {256, 65536}
  BY FieldSizes
<1>2. v \in [1 .. Elements[f] -> 0 .. (Modulus[f] - 1)]
  BY DEF FieldValues
<1> DEFINE e == Elements[f]
           m == Modulus[f]
<1>3. v \in [1 .. e -> Nat] /\ \A i \in 1 .. e : v[i] < m
  BY <1>1, <1>2
<1> HIDE DEF e, m
<1>4. v \in Seq(Nat) /\ Len(v) = e
  BY <1>1, <1>3 DEF e
<1> QED
  BY <1>1, <1>3, <1>4 DEF e, m

(* The text of a field takes at most 72 of the bytes of ValidCmd. *)
LEMMA FieldTextLen ==
    ASSUME NEW f \in Fields, NEW v \in FieldValues(f)
    PROVE  FieldText(f, v) \in Parameter /\ TextLen(FieldText(f, v)) \in 0 .. 72
<1>1. /\ v \in Seq(Nat) /\ Len(v) = Elements[f] /\ Len(v) \in {1, 2, 4}
      /\ \A i \in 1 .. Len(v) : v[i] < Modulus[f]
  BY ValuesFit
<1>2. \A i \in 1 .. Len(v) : v[i] \in Nat /\ Width(v[i]) \in 1 .. 5
  <2> SUFFICES ASSUME NEW i \in 1 .. Len(v) PROVE v[i] \in Nat /\ Width(v[i]) \in 1 .. 5
    OBVIOUS
  <2>1. v[i] \in Nat
    BY <1>1
  <2>2. v[i] < 100000
    BY <1>1, <2>1, FieldSizes
  <2> QED
    BY <2>1, <2>2, WidthBounds
<1>3. v[1] \in Nat /\ 1 \in 1 .. Len(v)
  BY <1>1
<1>4. CASE f \in {"ip", "size"}
  <2>1. FieldText(f, v) = [array |-> TRUE, numbers |-> v]
    BY <1>4 DEF FieldText, Array
  <2>2. FieldText(f, v) \in Parameter /\ FieldText(f, v).numbers = v /\ FieldText(f, v).array
    BY <1>1, <2>1 DEF Parameter
  <2>3. Cardinality(Digits(v)) \in Nat /\ Cardinality(Digits(v)) <= Len(v) * 5
    BY <1>1, <1>2, DigitsCounted
  <2>4. v # <<>>
    BY <1>1
  <2>5. TextLen(FieldText(f, v)) = Cardinality(Digits(v)) + (Len(v) - 1) + 2
    BY <2>2, <2>4, HelpIsNoParameter DEF TextLen
  <2> DEFINE d == Cardinality(Digits(v))
             l == Len(v)
  <2>6. /\ l \in {1, 2, 4} /\ d \in Nat /\ d <= l * 5
        /\ TextLen(FieldText(f, v)) = d + (l - 1) + 2
    BY <1>1, <2>3, <2>5
  <2> HIDE DEF d, l
  <2>7. TextLen(FieldText(f, v)) \in 0 .. 72
    BY <2>6
  <2> QED
    BY <2>2, <2>7
<1>5. CASE f \notin {"ip", "size"}
  <2> DEFINE w == <<v[1]>>
  <2>1. FieldText(f, v) = [array |-> FALSE, numbers |-> w]
    BY <1>5 DEF FieldText, Scalar
  <2>2. w \in Seq(Nat) /\ Len(w) = 1 /\ w[1] = v[1] /\ w # <<>>
    BY <1>3
  <2> HIDE DEF w
  <2>3. FieldText(f, v) \in Parameter /\ FieldText(f, v).numbers = w /\ ~FieldText(f, v).array
    BY <2>1, <2>2 DEF Parameter
  <2>4. Cardinality(Digits(w)) \in Nat /\ Cardinality(Digits(w)) <= Len(w) * 5
    <3>1. Width(w[1]) \in 1 .. 5
      BY <1>2, <1>3, <2>2
    <3>2. \A i \in 1 .. Len(w) : i = 1
      BY <2>2
    <3>3. \A i \in 1 .. Len(w) : Width(w[i]) \in 1 .. 5
      BY <3>1, <3>2, Zenon
    <3>4. 5 \in 1 .. 10
      OBVIOUS
    <3> QED
      BY <2>2, <3>3, <3>4, DigitsCounted
  <2>5. TextLen(FieldText(f, v)) = Cardinality(Digits(w)) + (Len(w) - 1) + 0
    BY <2>2, <2>3, HelpIsNoParameter DEF TextLen
  <2> DEFINE d == Cardinality(Digits(w))
             l == Len(w)
  <2>6. l = 1 /\ d \in Nat /\ d <= l * 5 /\ TextLen(FieldText(f, v)) = d + (l - 1) + 0
    BY <2>2, <2>4, <2>5
  <2> HIDE DEF d, l
  <2>7. TextLen(FieldText(f, v)) \in 0 .. 72
    BY <2>6
  <2> QED
    BY <2>3, <2>7
<1> QED
  BY <1>4, <1>5

(* So does any text of a reply. *)
LEMMA TextsFit ==
    ASSUME NEW t \in Texts
    PROVE  TextLen(t) \in 0 .. 72
<1>1. CASE t = HelpText
  BY <1>1 DEF TextLen, HelpText
<1>2. CASE t = NoText
  <2>1. t \in Parameter /\ t.numbers = <<>> /\ ~t.array
    BY <1>2 DEF NoText, Parameter
  <2>2. Cardinality(Digits(<<>>)) = 0
    <3>1. Digits(<<>>) = {}
      BY DEF Digits
    <3> QED
      BY <3>1, FS_EmptySet
  <2>3. TextLen(t) = Cardinality(Digits(<<>>)) + 0 + 0
    BY <2>1, HelpIsNoParameter DEF TextLen
  <2> QED
    BY <2>2, <2>3
<1>3. ASSUME NEW f \in Fields, NEW v \in FieldValues(f), t = FieldText(f, v)
      PROVE  TextLen(t) \in 0 .. 72
  BY <1>3, FieldTextLen
<1> QED
  BY <1>1, <1>2, <1>3 DEF Texts

-----------------------------------------------------------------------------
(* Pairs, and functions into a larger set; numbers below a modulus. *)
LEMMA Pair ==
    ASSUME NEW S, NEW a \in S, NEW b \in S
    PROVE  <<a, b>> \in [1 .. 2 -> S]
<1>1. <<a, b>> = [i \in 1 .. 2 |-> IF i = 1 THEN a ELSE b]
  OBVIOUS
<1>2. [i \in 1 .. 2 |-> IF i = 1 THEN a ELSE b] \in [1 .. 2 -> S]
  OBVIOUS
<1> QED
  BY <1>1, <1>2, Zenon

LEMMA Wider ==
    ASSUME NEW I, NEW S, NEW T, \A x \in S : x \in T, NEW v \in [I -> S]
    PROVE  v \in [I -> T]
OBVIOUS

LEMMA Unchanged ==
    ASSUME NEW I, NEW S, NEW m, \A x \in S : x % m = x, NEW v \in [I -> S]
    PROVE  [i \in I |-> v[i] % m] = v
<1>1. \A i \in I : v[i] \in S /\ v[i] % m = v[i]
  OBVIOUS
<1>2. v = [i \in I |-> v[i]]
  OBVIOUS
<1>3. [i \in I |-> v[i] % m] = [i \in I |-> v[i]]
  BY <1>1, Zenon
<1> QED
  BY <1>2, <1>3, Zenon

LEMMA Remainder ==
    ASSUME NEW m \in Nat \ {0}, NEW x \in Int
    PROVE  x % m \in 0 .. (m - 1)
BY Z3

\* Widths and heights within the sensor's.
Pixels == 0 .. 1024
Lines == 0 .. 768

\* A size within the sensor's, 4:3 but for rounding.
Fitting(v) ==
    /\ v[1] \in Pixels /\ v[2] \in Lines
    /\ 4 * v[2] <= 3 * v[1] + 2 /\ 3 * v[1] <= 4 * v[2] + 3

LEMMA SupportedFits == \A w, h \in Nat : Fitting(Supported(w, h))
BY SizesFit DEF Fitting, Pixels, Lines

(* A supported size is a pair of pixels, which is a pair of u16. *)
LEMMA SupportedPair ==
    ASSUME NEW w \in Nat, NEW h \in Nat
    PROVE  Supported(w, h) \in [1 .. 2 -> Pixels]
<1>1. Supported(w, h)[1] \in Pixels /\ Supported(w, h)[2] \in Pixels
  <2>1. Supported(w, h)[1] \in Pixels /\ Supported(w, h)[2] \in Lines
    BY SupportedFits, Zenon DEF Fitting
  <2>2. \A x \in Lines : x \in Pixels
    BY DEF Pixels, Lines
  <2> QED
    BY <2>1, <2>2, Zenon
<1>2. \E a, b : Supported(w, h) = <<a, b>>
  BY DEF Supported
<1>3. PICK a, b : Supported(w, h) = <<a, b>>
  BY <1>2
<1>4. a \in Pixels /\ b \in Pixels
  BY <1>1, <1>3
<1> QED
  BY <1>3, <1>4, Pair, Zenon

\* The value of field f that the numbers n mean.
MeantValue(f, n) ==
    IF f = "size" THEN Supported(n[1], n[2]) ELSE [i \in 1 .. Elements[f] |-> n[i] % Modulus[f]]

(* The two sides are numbers even when one of those given is from the stack. *)
LEMMA SupportedTyped ==
    ASSUME NEW w \in Int, NEW h \in Int
    PROVE  Supported(w, h)[1] \in Int /\ Supported(w, h)[2] \in Int
<1> DEFINE w1 == AtMost(w, 1024)
           h1 == AtMost(h, 768)
<1>1. w1 \in Int /\ h1 \in Int
  BY DEF AtMost
<1>2. Supported(w, h) = IF 4 * h1 >= 3 * w1 THEN <<w1, (3 * w1) \div 4>>
                        ELSE <<(4 * h1) \div 3, h1>>
  BY DEF Supported
<1> HIDE DEF w1, h1
<1> QED
  BY <1>1, <1>2

(* Whatever was found, a field gets a value within its width. *)
LEMMA ValueTyped ==
    ASSUME NEW f \in Fields, NEW n \in Seq(Nat), NEW g \in Int, NEW kept \in Stack(f)
    PROVE  FieldValue(f, n, g, kept) \in FieldValues(f)
<1> DEFINE x(i) == IF i <= Len(n) THEN Given(f, n, g)[i] ELSE kept[i]
<1>1. Elements[f] \in {1, 2, 4} /\ Modulus[f] \in Nat \ {0}
      /\ (f = "size" => Elements[f] = 2)
  BY FieldSizes
<1>2. Len(n) \in Nat /\ \A i \in 1 .. Len(n) : n[i] \in Nat
  OBVIOUS
<1>3. \A i \in 1 .. Elements[f] : kept[i] \in Int
  BY GarbageAssumption DEF Stack
<1>4. \A i \in 1 .. Elements[f] : i <= Len(n) => Given(f, n, g)[i] \in Int
  <2> SUFFICES ASSUME NEW i \in 1 .. Elements[f], i <= Len(n)
               PROVE  Given(f, n, g)[i] \in Int
    OBVIOUS
  <2>1. CASE f = "size"
    <3> DEFINE h == IF Len(n) >= 2 THEN n[2] ELSE g
    <3>1. i \in {1, 2} /\ n # <<>> /\ n[1] \in Int
      BY <1>1, <1>2, <2>1
    <3>2. h \in Int
      BY <1>2
    <3>3. Given(f, n, g) = Supported(n[1], h)
      BY <2>1, <3>1 DEF Given
    <3> HIDE DEF h
    <3> QED
      BY <3>1, <3>2, <3>3, SupportedTyped
  <2>2. CASE f # "size"
    <3>1. Given(f, n, g) = n
      BY <2>2 DEF Given
    <3>2. n[i] \in Int
      BY <1>1, <1>2
    <3> QED
      BY <3>1, <3>2
  <2> QED
    BY <2>1, <2>2
<1>5. \A i \in 1 .. Elements[f] : x(i) \in Int
  BY <1>3, <1>4
<1>6. FieldValue(f, n, g, kept) = [i \in 1 .. Elements[f] |-> x(i) % Modulus[f]]
  BY DEF FieldValue
<1> HIDE DEF x
<1>7. \A i \in 1 .. Elements[f] : x(i) % Modulus[f] \in 0 .. (Modulus[f] - 1)
  BY <1>1, <1>5, Remainder, Zenon
<1> QED
  BY <1>6, <1>7 DEF FieldValues

(* With all its numbers given, a field gets what was meant. *)
LEMMA ValueMeant ==
    ASSUME NEW f \in Fields, NEW n \in Seq(Nat), Len(n) = Elements[f], NEW g, NEW kept
    PROVE  FieldValue(f, n, g, kept) = MeantValue(f, n)
<1>1. Elements[f] \in {1, 2, 4} /\ Modulus[f] \in {256, 65536}
      /\ (f = "size" => Elements[f] = 2 /\ Modulus[f] = 65536)
  BY FieldSizes
<1> DEFINE value == Given(f, n, g)
           e == Elements[f]
<1>2. FieldValue(f, n, g, kept)
        = [i \in 1 .. e |-> (IF i <= Len(n) THEN value[i] ELSE kept[i]) % Modulus[f]]
  BY DEF FieldValue
<1>3. \A i \in 1 .. e : i <= Len(n)
  BY <1>1
<1> HIDE DEF value, e
<1>4. FieldValue(f, n, g, kept) = [i \in 1 .. e |-> value[i] % Modulus[f]]
  BY <1>2, <1>3
<1>5. CASE f = "size"
  <2>1. Elements[f] = 2 /\ n[1] \in Nat /\ n[2] \in Nat /\ n # <<>> /\ Len(n) >= 2
    BY <1>1, <1>5
  <2>2. value = Supported(n[1], n[2])
    BY <1>5, <2>1 DEF Given, value
  <2>3. \A x \in Pixels : x % Modulus[f] = x
    <3>1. \A x \in Pixels : x % 65536 = x
      BY DEF Pixels
    <3>2. Modulus[f] = 65536
      BY <1>1, <1>5
    <3> QED
      BY <3>1, <3>2
  <2>4. value \in [1 .. 2 -> Pixels]
    BY <2>1, <2>2, SupportedPair, Zenon
  <2>5. [i \in 1 .. 2 |-> value[i] % Modulus[f]] = value
    BY <2>3, <2>4, Unchanged, Zenon
  <2> QED
    BY <1>4, <1>5, <2>1, <2>2, <2>5, Zenon DEF MeantValue, e
<1>6. CASE f # "size"
  <2>1. value = n
    BY <1>6 DEF Given, value
  <2> QED
    BY <1>4, <1>6, <2>1 DEF MeantValue, e
<1> QED
  BY <1>5, <1>6

-----------------------------------------------------------------------------
(* The digits that follow a parameter are at most ten, and take a power of ten. *)
LEMMA TailTyped ==
    ASSUME NEW r \in Residues
    PROVE  /\ r.digits \in Seq(Nat) /\ r.more \in Seq(Nat)
           /\ r.digits # <<>> => r.digits[1] \in Nat
           /\ TailWidth(r) \in 0 .. 10
<1>1. r.digits \in Seq(Nat) /\ r.more \in Seq(Nat)
  BY ResidueAssumption DEF Residue
<1>2. r.digits # <<>> => r.digits[1] \in Nat
  BY <1>1
<1>3. TailWidth(r) \in 0 .. 10
  <2>1. CASE r.digits = <<>>
    BY <2>1 DEF TailWidth
  <2>2. CASE r.digits # <<>>
    <3>1. Width(r.digits[1]) \in 1 .. 10
      BY <1>2, <2>2, WidthBounds
    <3> QED
      BY <2>2, <3>1 DEF TailWidth
  <2> QED
    BY <2>1, <2>2
<1> QED
  BY <1>1, <1>2, <1>3

(* Scan_Params returns numbers, whatever the text and what follows it. *)
LEMMA ScanTyped ==
    ASSUME NEW p \in Parameter, NEW r \in Residues
    PROVE  Scan_Params(p, r) \in Seq(Nat)
<1>1. p.numbers \in Seq(Nat)
  BY DEF Parameter
<1>2. \A n \in Nat : <<n>> \in Seq(Nat)
  OBVIOUS
<1>3. \A n \in Nat : Followed(n, r) \in Seq(Nat)
  <2> SUFFICES ASSUME NEW n \in Nat PROVE Followed(n, r) \in Seq(Nat)
    OBVIOUS
  <2>1. CASE r.digits = <<>>
    BY <1>2, <2>1, TakenTyped DEF Followed
  <2>2. CASE r.digits # <<>> /\ Width(n) + TailWidth(r) < 10
    <3> DEFINE t == TailWidth(r)
               d == r.digits[1]
               q == 10^t
    <3>1. Followed(n, r) = <<n * q + d>>
      BY <2>2 DEF Followed
    <3>2. t \in 0 .. 8 /\ d \in Nat
      <4>1. Width(n) \in 1 .. 10
        BY WidthBounds
      <4>2. TailWidth(r) \in 0 .. 10 /\ r.digits[1] \in Nat
        BY <2>2, TailTyped
      <4> QED
        BY <2>2, <4>1, <4>2
    <3> HIDE DEF t, d
    <3>3. q \in Nat
      BY <3>2, PowersTyped
    <3> HIDE DEF q
    <3>4. n * q + d \in Nat
      BY <3>2, <3>3
    <3> QED
      BY <1>2, <3>1, <3>4
  <2>3. CASE r.digits # <<>> /\ ~(Width(n) + TailWidth(r) < 10)
    BY <2>3 DEF Followed
  <2> QED
    BY <2>1, <2>2, <2>3
<1>4. ASSUME NEW s \in Seq(Nat), s # <<>> PROVE Overread(s, r) \in Seq(Nat)
  <2> DEFINE front == Taken(SubSeq(s, 1, Len(s) - 1))
             end == IF Width(s[Len(s)]) + 1 + TailWidth(r) < 10 THEN <<s[Len(s)]>> ELSE <<>>
  <2>1. Taken(s) \in Seq(Nat) /\ Taken(r.more) \in Seq(Nat)
    BY TakenTyped, TailTyped
  <2>2. SubSeq(s, 1, Len(s) - 1) \in Seq(Nat)
    BY <1>4
  <2>3. front \in Seq(Nat)
    BY <2>2, TakenTyped
  <2>4. end \in Seq(Nat)
    <3>1. s[Len(s)] \in Nat
      BY <1>4
    <3> QED
      BY <3>1
  <2>5. Overread(s, r) = IF r.more = <<>> THEN Taken(s) ELSE front \o end \o Taken(r.more)
    BY DEF Overread
  <2> HIDE DEF front, end
  <2> QED
    BY <2>1, <2>3, <2>4, <2>5
<1>5. CASE p.array
  <2> DEFINE words == IF p.numbers = <<>> THEN <<0>> ELSE p.numbers
             found == Overread(words, r)
  <2>1. words \in Seq(Nat) /\ words # <<>>
    BY <1>1
  <2>2. Scan_Params(p, r) = SubSeq(found, 1, AtMost(Len(found), 8))
    BY <1>5 DEF Scan_Params
  <2> HIDE DEF words
  <2>3. found \in Seq(Nat)
    BY <1>4, <2>1
  <2> HIDE DEF found
  <2>4. AtMost(Len(found), 8) \in Nat /\ AtMost(Len(found), 8) <= Len(found)
    BY <2>3 DEF AtMost
  <2> QED
    BY <2>2, <2>3, <2>4
<1>6. CASE ~p.array /\ Len(p.numbers) = 1
  <2>1. p.numbers[1] \in Nat /\ Scan_Params(p, r) = Followed(p.numbers[1], r)
    BY <1>1, <1>6 DEF Scan_Params
  <2> QED
    BY <1>3, <2>1
<1>7. CASE ~p.array /\ Len(p.numbers) # 1
  <2> DEFINE n == p.numbers
             l == AtMost(Len(n), 1)
  <2>1. Scan_Params(p, r) = Taken(SubSeq(n, 1, l))
    BY <1>7 DEF Scan_Params
  <2>2. n \in Seq(Nat) /\ l \in Nat /\ l <= Len(n)
    BY <1>1 DEF AtMost
  <2> HIDE DEF n, l
  <2>3. SubSeq(n, 1, l) \in Seq(Nat)
    BY <2>2
  <2> QED
    BY <2>1, <2>3, TakenTyped
<1> QED
  BY <1>5, <1>6, <1>7

(* Of a parameter that is read as sent Scan_Params returns the numbers. *)
LEMMA Scanned ==
    ASSUME NEW s \in Segment, s.cmd \in SetCommands, NEW r \in Residues, ReadAsSent(s, r)
    PROVE  /\ Scan_Params(s.para, r) = s.para.numbers
           /\ s.para.numbers \in Seq(Nat)
           /\ Len(s.para.numbers) = Elements[FieldOf[s.cmd]]
<1> DEFINE n == s.para.numbers
<1>1. /\ n \in Seq(Nat) /\ Len(n) = Elements[FieldOf[s.cmd]]
      /\ IF s.para.array THEN r.more = <<>> ELSE Len(n) = 1 /\ r.digits = <<>>
      /\ \A i \in 1 .. Len(n) : Short(n[i])
  BY DEF ReadAsSent, Segment, Parameter
<1>2. Len(n) \in {1, 2, 4}
  BY <1>1, FieldSizes, FieldsOfCommands
<1>4. Taken(n) = n
  BY <1>1, AllTaken
<1>5. CASE s.para.array
  <2>1. n # <<>>
    BY <1>1, <1>2
  <2> HIDE DEF n
  <2>2. AtMost(Len(n), 8) = Len(n)
    <3>1. \A k \in {1, 2, 4} : AtMost(k, 8) = k
      BY DEF AtMost
    <3> QED
      BY <1>2, <3>1
  <2>3. Overread(n, r) = n
    BY <1>1, <1>4, <1>5, Zenon DEF Overread
  <2>4. Scan_Params(s.para, r) = SubSeq(n, 1, Len(n))
    BY <1>5, <2>1, <2>2, <2>3 DEF Scan_Params, n
  <2>5. SubSeq(n, 1, Len(n)) = n
    BY <1>1
  <2>6. Scan_Params(s.para, r) = n
    BY <2>4, <2>5, Zenon
  <2> QED
    BY <1>1, <2>6, Zenon DEF n
<1>6. CASE ~s.para.array
  <2>1. Len(n) = 1 /\ Followed(n[1], r) = Taken(<<n[1]>>)
    BY <1>1, <1>6 DEF Followed
  <2>2. Scan_Params(s.para, r) = Taken(<<n[1]>>)
    BY <1>6, <2>1 DEF Scan_Params
  <2> HIDE DEF n
  <2>3. <<n[1]>> = n
    BY <1>1, <2>1
  <2>4. Scan_Params(s.para, r) = n
    BY <1>4, <2>2, <2>3, Zenon
  <2> QED
    BY <1>1, <2>4, Zenon DEF n
<1> QED
  BY <1>5, <1>6

-----------------------------------------------------------------------------
\* A list of fields within their widths, and with a size that is supported.
Fits(t) == t \in [Fields -> Seq(Nat)] /\ \A f \in Fields : t[f] \in FieldValues(f)

Supports(t) == Fitting(t["size"])

(* RAM and block are one list, which fits; it holds what was meant, and a supported
   size, where the last command was read as sent. *)
Stored ==
    /\ StoredAsSent /\ Fits(flash) /\ Fits(told) /\ misread \subseteq Fields
    /\ "size" \notin misread => Supports(flash)

(* Lenth and ParaLen count the reply to the command just accepted alike. *)
Framed ==
    cur # <<>> /\ Understood(cur[1])
        => validCmd.lenth \in Nat /\ paraLen = validCmd.lenth + 9

(* Segments, texts and lengths within their bounds. *)
Bounded ==
    /\ up \in BOOLEAN /\ unsent \in BOOLEAN
    /\ Len(inbox) <= 2 * sends
    /\ validCmd.text \in Texts
    /\ paraLen \in 0 .. 20 \cup 25 .. 97 \cup {255}
    /\ sends \in 0 .. MaxSegments /\ restarts \in 0 .. MaxRestarts

BInv == Received /\ Stored /\ Bounded /\ Framed

(* GetParaLen returns at most 20, or 0xff. *)
LEMMA ParaLenFits == \A p \in Parameter : GetParaLen(p) \in 0 .. 20 \cup {255}
BY TextLenIsNat DEF GetParaLen

(* A set command stores a value: it is the one meant if the parameter is read as sent,
   and of its own field if it is not. *)
LEMMA ValueStored ==
    ASSUME Stored, NEW s \in Segment, s.cmd \in SetCommands, NEW r \in Residues,
           NEW g \in Garbage, NEW kept \in Stack(FieldOf[s.cmd]), Tell(s, r),
           flash' = [list EXCEPT ![FieldOf[s.cmd]] =
                        FieldValue(FieldOf[s.cmd], Scan_Params(s.para, r), g, kept)],
           list' = flash'
    PROVE  /\ Stored'
           /\ s.cmd \notin Restarting /\ FieldOf[s.cmd] \notin misread'
                 => Len(Scan_Params(s.para, r)) = 1
<1> DEFINE f == FieldOf[s.cmd]
           found == Scan_Params(s.para, r)
           v == FieldValue(f, found, g, kept)
<1>1. f \in Fields /\ (f \in {"ip", "size"} <=> s.cmd \in Restarting)
  BY FieldsOfCommands
<1>2. v \in FieldValues(f)
  <2>1. found \in Seq(Nat)
    BY ScanTyped DEF Segment
  <2>2. g \in Int
    BY GarbageAssumption
  <2> QED
    BY <1>1, <2>1, <2>2, ValueTyped
<1>3. ReadAsSent(s, r) =>
        /\ v = Meant(s)
        /\ f = "size" => Fitting(v)
        /\ s.cmd \notin Restarting => Len(found) = 1
  <2> SUFFICES ASSUME ReadAsSent(s, r)
               PROVE  /\ v = Meant(s)
                      /\ f = "size" => Fitting(v)
                      /\ s.cmd \notin Restarting => Len(found) = 1
    OBVIOUS
  <2> DEFINE n == s.para.numbers
  <2>1. found = n /\ n \in Seq(Nat) /\ Len(n) = Elements[f]
    BY Scanned
  <2>2. Meant(s) = MeantValue(f, n)
    BY Zenon DEF Meant, MeantValue
  <2> HIDE DEF f, found, n
  <2>3. FieldValue(f, n, g, kept) = MeantValue(f, n)
    BY <1>1, <2>1, ValueMeant
  <2>4. v = Meant(s)
    BY <2>1, <2>2, <2>3
  <2>5. f = "size" => n[1] \in Nat /\ n[2] \in Nat
    BY <1>1, <2>1, FieldSizes
  <2>6. f = "size" => Fitting(MeantValue(f, n))
    BY <2>5, SupportedFits, Zenon DEF MeantValue
  <2>7. f \notin {"ip", "size"} => Len(n) = 1
    BY <1>1, <2>1, FieldSizes
  <2> QED
    BY <1>1, <2>1, <2>2, <2>4, <2>6, <2>7
<1>4. \/ ReadAsSent(s, r) /\ told' = [told EXCEPT ![f] = Meant(s)] /\ misread' = misread \ {f}
      \/ ~ReadAsSent(s, r) /\ told' = told /\ misread' = misread \cup {f}
  BY DEF Tell
<1>5. flash' = [flash EXCEPT ![f] = v]
  BY DEF Stored, StoredAsSent
<1>6. /\ Fits(flash) /\ Fits(told) /\ misread \subseteq Fields
      /\ \A x \in Fields \ misread : flash[x] = told[x]
      /\ "size" \notin misread => Supports(flash)
  BY DEF Stored, StoredAsSent
<1> HIDE DEF f, found, v
<1>7. v \in Seq(Nat)
  BY <1>1, <1>2, ValuesFit
<1>8. ASSUME NEW t, Fits(t)
      PROVE  /\ [t EXCEPT ![f] = v][f] = v
             /\ \A x \in Fields \ {f} : [t EXCEPT ![f] = v][x] = t[x]
             /\ Fits([t EXCEPT ![f] = v])
  <2> DEFINE t2 == [t EXCEPT ![f] = v]
  <2>1. t2 \in [Fields -> Seq(Nat)] /\ t2[f] = v /\ \A x \in Fields \ {f} : t2[x] = t[x]
    BY <1>1, <1>7, <1>8 DEF Fits
  <2> HIDE DEF t2
  <2>2. Fits(t2)
    BY <1>2, <1>8, <2>1 DEF Fits
  <2> QED
    BY <2>1, <2>2 DEF t2
<1>9. Fits(flash') /\ flash'[f] = v /\ \A x \in Fields \ {f} : flash'[x] = flash[x]
  <2> DEFINE t2 == [flash EXCEPT ![f] = v]
  <2>1. Fits(t2) /\ t2[f] = v /\ \A x \in Fields \ {f} : t2[x] = flash[x]
    BY <1>6, <1>8
  <2>2. flash' = t2
    BY <1>5
  <2> HIDE DEF t2
  <2> QED
    BY <2>1, <2>2
<1>10. "size" \in Fields
  BY DEF Fields
<1>11. CASE ReadAsSent(s, r)
  <2>1. told' = [told EXCEPT ![f] = v] /\ misread' = misread \ {f}
    BY <1>3, <1>4, <1>11
  <2>2. Fits(told') /\ told'[f] = v /\ \A x \in Fields \ {f} : told'[x] = told[x]
    BY <1>6, <1>8, <2>1
  <2>3. \A x \in Fields \ misread' : flash'[x] = told'[x]
    BY <1>6, <1>9, <2>1, <2>2
  <2>4. "size" \notin misread' => Supports(flash')
    <3>1. CASE f = "size"
      BY <1>3, <1>9, <1>11, <3>1 DEF Supports
    <3>2. CASE f # "size"
      BY <1>6, <1>9, <1>10, <2>1, <3>2 DEF Supports
    <3> QED
      BY <3>1, <3>2
  <2>5. Stored'
    BY <1>6, <1>9, <2>1, <2>2, <2>3, <2>4 DEF Stored, StoredAsSent, Fits, Supports
  <2> QED
    BY <1>3, <1>11, <2>5 DEF f, found
<1>12. CASE ~ReadAsSent(s, r)
  <2>1. told' = told /\ misread' = misread \cup {f}
    BY <1>4, <1>12
  <2>2. \A x \in Fields \ misread' : flash'[x] = told'[x]
    BY <1>6, <1>9, <2>1
  <2>3. "size" \notin misread' => Supports(flash')
    BY <1>6, <1>9, <1>10, <2>1 DEF Supports
  <2>4. misread' \subseteq Fields /\ f \in misread'
    BY <1>1, <1>6, <2>1
  <2>5. Stored'
    BY <1>6, <1>9, <2>1, <2>2, <2>3, <2>4 DEF Stored, StoredAsSent, Fits, Supports
  <2> QED
    BY <2>4, <2>5 DEF f
<1> QED
  BY <1>11, <1>12

(* A set command that is answered: its value goes to RAM and block. *)
LEMMA SetStores ==
    ASSUME Stored, NEW s \in Segment, s.cmd \in SetCommands \ Restarting, SetCommand(s)
    PROVE  /\ Stored' /\ paraLen' = 26 /\ validCmd'.text = NoText
           /\ FieldOf[s.cmd] \notin misread' => validCmd'.lenth = 17
<1> DEFINE f == FieldOf[s.cmd]
<1>1. PICK r \in Residues, g \in Garbage :
         /\ \E kept \in Stack(f) : StoreField(f, FieldValue(f, Scan_Params(s.para, r), g, kept))
         /\ paraLen' = 26
         /\ validCmd' = [cmd |-> s.cmd, lenth |-> 15 + Len(Scan_Params(s.para, r)) + 1,
                         text |-> NoText]
         /\ Tell(s, r)
  BY DEF SetCommand
<1>2. PICK kept \in Stack(f) : StoreField(f, FieldValue(f, Scan_Params(s.para, r), g, kept))
  BY <1>1
<1>3. flash' = [list EXCEPT ![f] = FieldValue(f, Scan_Params(s.para, r), g, kept)]
      /\ list' = flash'
  BY <1>2 DEF StoreField
<1>4. Stored' /\ (f \notin misread' => Len(Scan_Params(s.para, r)) = 1)
  BY <1>1, <1>3, ValueStored
<1> DEFINE l == Len(Scan_Params(s.para, r))
<1>5. validCmd' = [cmd |-> s.cmd, lenth |-> 15 + l + 1, text |-> NoText]
      /\ (f \notin misread' => l = 1)
  BY <1>1, <1>4
<1> HIDE DEF l, f
<1>6. validCmd'.lenth = 15 + l + 1 /\ validCmd'.text = NoText
  BY <1>5
<1> QED
  BY <1>1, <1>4, <1>5, <1>6 DEF f

(* setipa and setsiz store before they restart. *)
LEMMA RestartStores ==
    ASSUME Stored, NEW s \in Segment, s.cmd \in SetCommands, SetAndRestart(s)
    PROVE  Stored' /\ Boot
<1> DEFINE f == FieldOf[s.cmd]
<1>1. PICK r \in Residues, g \in Garbage :
         /\ \E kept \in Stack(f) :
               flash' = [list EXCEPT ![f] = FieldValue(f, Scan_Params(s.para, r), g, kept)]
         /\ Tell(s, r)
         /\ Boot
  BY DEF SetAndRestart
<1>2. PICK kept \in Stack(f) :
         flash' = [list EXCEPT ![f] = FieldValue(f, Scan_Params(s.para, r), g, kept)]
  BY <1>1
<1>3. list' = flash'
  BY <1>1 DEF Boot
<1>4. Stored'
  BY <1>1, <1>2, <1>3, ValueStored
<1> QED
  BY <1>1, <1>4

(* A get command: its text fits, and Lenth and ParaLen count it alike. *)
LEMMA GetFrames ==
    ASSUME NEW s \in Segment, Accepted(s), s.cmd \notin SetCommands, GetCommand(s),
           Stored, validCmd.text \in Texts
    PROVE  /\ Stored' /\ paraLen' \in 25 .. 97 /\ validCmd'.text \in Texts
           /\ validCmd'.lenth \in Nat /\ paraLen' = validCmd'.lenth + 9
<1>1. TextOf(s) \in Texts
  <2>1. CASE s.cmd = "getver"
    BY <2>1 DEF TextOf
  <2>2. CASE s.cmd = "gethep"
    BY <2>2 DEF TextOf, Texts
  <2>3. CASE s.cmd \notin {"getver", "gethep"}
    <3>1. s.cmd \in GetCommands \ {"getver"}
      BY <2>3 DEF Segment, AllCommands, Accepted
    <3>2. FieldOf[s.cmd] \in Fields /\ list[FieldOf[s.cmd]] \in FieldValues(FieldOf[s.cmd])
      BY <3>1, FieldsOfCommands DEF Stored, StoredAsSent, Fits
    <3>3. TextOf(s) = FieldText(FieldOf[s.cmd], list[FieldOf[s.cmd]])
      BY <2>3 DEF TextOf
    <3> QED
      BY <3>2, <3>3 DEF Texts
  <2> QED
    BY <2>1, <2>2, <2>3
<1> DEFINE l == TextLen(TextOf(s))
<1>2. l \in 0 .. 72
  BY <1>1, TextsFit
<1>3. /\ paraLen' = 25 + l
      /\ validCmd' = [cmd |-> s.cmd, lenth |-> (25 + l) - 9, text |-> TextOf(s)]
      /\ UNCHANGED <<list, flash, told, misread>>
  BY DEF GetCommand
<1> HIDE DEF l
<1>4. validCmd'.lenth = (25 + l) - 9 /\ validCmd'.text = TextOf(s)
  BY <1>3
<1>5. Stored'
  BY <1>3 DEF Stored, StoredAsSent, Fits, Supports
<1> QED
  BY <1>1, <1>2, <1>3, <1>4, <1>5

(* The camera starts with the defaults and an empty ValidCmd. *)
LEMMA InitBounded == ASSUME Init PROVE BInv
<1>1. Fits(DefaultList)
  BY ListAssumption DEF Fits, FieldValues
<1>0. Supports(DefaultList)
  BY ListAssumption DEF Supports, Fitting, Pixels, Lines
<1>2. Stored
  BY <1>0, <1>1 DEF Init, Stored, StoredAsSent, Fits, Supports
<1>3. NoText \in Texts /\ Cleared.text = NoText
  BY DEF Texts, Cleared
<1>4. Bounded
  <2>1. Len(inbox) <= 2 * sends
    BY DEF Init
  <2>2. /\ up = FALSE /\ unsent = FALSE /\ sends = 0 /\ restarts = 0 /\ paraLen = 0
        /\ validCmd.text \in Texts
    BY <1>3 DEF Init
  <2>3. paraLen \in 0 .. 20 \cup 25 .. 97 \cup {255} /\ sends \in 0 .. MaxSegments
        /\ restarts \in 0 .. MaxRestarts
    BY <2>2, BoundAssumption
  <2> QED
    BY <2>1, <2>2, <2>3, Zenon DEF Bounded
<1> QED
  BY <1>2, <1>4 DEF Init, BInv, Received, Framed

(* A restart reads the block and clears the rest. *)
LEMMA BootBounded ==
    ASSUME BInv, Boot, Stored', UNCHANGED sends, restarts' \in 0 .. MaxRestarts
    PROVE  BInv'
<1>1. NoText \in Texts /\ Cleared.text = NoText
  BY DEF Texts, Cleared
<1>2. up' = FALSE /\ inbox' = <<>> /\ cur' = <<>> /\ paraLen' = 0 /\ unsent' = FALSE
      /\ validCmd'.text \in Texts
  BY <1>1 DEF Boot
<1>3. Bounded'
  <2>1. sends \in 0 .. MaxSegments /\ sends' = sends /\ Len(inbox') = 0
    BY <1>2, BoundAssumption DEF BInv, Bounded
  <2>2. Len(inbox') <= 2 * sends'
    BY <2>1, BoundAssumption
  <2>3. paraLen' \in 0 .. 20 \cup 25 .. 97 \cup {255}
    BY <1>2
  <2> QED
    BY <1>2, <2>1, <2>2, <2>3, Zenon DEF Bounded
<1> QED
  BY <1>2, <1>3 DEF BInv, Received, Framed

(* A segment is looked at (PollMessage). *)
LEMMA ReceiveBounded ==
    ASSUME BInv, Receive
    PROVE  BInv'
<1>1. /\ cur = <<>> /\ Head(inbox) \in Sent /\ Tail(inbox) \in Seq(Sent)
      /\ Len(inbox) \in Nat /\ Len(Tail(inbox)) <= Len(inbox)
      /\ UNCHANGED <<reply, sends, restarts>>
  BY DEF Receive, BInv, Received
<1>2. PICK s \in Sent : s = Head(inbox)
  BY <1>1
<1>3. s \in Segment
  BY DEF Sent
<1>5. CASE Accepted(s) /\ s.cmd \in Restarting
  <2>1. SetAndRestart(s)
    BY <1>2, <1>5 DEF Receive
  <2>2. s.cmd \in SetCommands
    BY <1>5 DEF Restarting, SetCommands
  <2>3. Stored' /\ Boot
    BY <1>3, <2>1, <2>2, RestartStores DEF BInv
  <2> QED
    BY <1>1, <2>3, BootBounded DEF BInv, Bounded
<1>6. CASE ~(Accepted(s) /\ s.cmd \in Restarting)
  <2>1. /\ cur' = <<s>> /\ inbox' = Tail(inbox) /\ UNCHANGED <<up, unsent>>
        /\ \/ Unknown(s)
           \/ BadParameter(s)
           \/ Accepted(s) /\ s.cmd \in SetCommands /\ SetCommand(s)
           \/ Accepted(s) /\ s.cmd \notin SetCommands /\ GetCommand(s)
    BY <1>2, <1>6 DEF Receive
  <2>2. Received'
    BY <1>1, <2>1 DEF Received
  <2>3. /\ Stored' /\ validCmd'.text \in Texts
        /\ paraLen' \in 0 .. 20 \cup 25 .. 97 \cup {255}
        /\ Understood(s)' => validCmd'.lenth \in Nat /\ paraLen' = validCmd'.lenth + 9
    <3>0. Stored /\ validCmd.text \in Texts /\ paraLen \in 0 .. 20 \cup 25 .. 97 \cup {255}
      BY DEF BInv, Bounded
    <3>1. CASE Unknown(s)
      <4>1. ~Accepted(s)
        BY <3>1 DEF Unknown, Accepted
      <4>2. UNCHANGED <<list, flash, paraLen, validCmd, told, misread>>
        BY <3>1 DEF Unknown, serverVars
      <4>3. Stored'
        BY <3>0, <4>2 DEF Stored, StoredAsSent, Fits, Supports
      <4>4. validCmd'.text \in Texts
        BY <3>0, <4>2
      <4>5. paraLen' \in 0 .. 20 \cup 25 .. 97 \cup {255}
        BY <3>0, <4>2
      <4> QED
        BY <4>1, <4>3, <4>4, <4>5, Zenon DEF Understood
    <3>2. CASE BadParameter(s)
      <4>1. ~Accepted(s)
        BY <3>2 DEF BadParameter, Accepted
      <4>2. paraLen' \in 0 .. 20 \cup {255}
        BY <1>3, <3>2, ParaLenFits DEF BadParameter, Segment
      <4>3. UNCHANGED <<list, flash, validCmd, told, misread>>
        BY <3>2 DEF BadParameter
      <4>4. Stored'
        BY <3>0, <4>3 DEF Stored, StoredAsSent, Fits, Supports
      <4>5. validCmd'.text \in Texts
        BY <3>0, <4>3
      <4> QED
        BY <4>1, <4>2, <4>4, <4>5 DEF Understood
    <3>3. CASE Accepted(s) /\ s.cmd \in SetCommands /\ SetCommand(s)
      <4>1. s.cmd \in SetCommands \ Restarting
        BY <1>6, <3>3
      <4>2. /\ Stored' /\ paraLen' = 26 /\ validCmd'.text = NoText
            /\ FieldOf[s.cmd] \notin misread' => validCmd'.lenth = 17
        BY <1>3, <3>0, <3>3, <4>1, SetStores
      <4>3. NoText \in Texts
        BY DEF Texts
      <4> QED
        BY <4>1, <4>2, <4>3 DEF Understood
    <3>4. CASE Accepted(s) /\ s.cmd \notin SetCommands /\ GetCommand(s)
      <4>1. /\ Stored' /\ paraLen' \in 25 .. 97 /\ validCmd'.text \in Texts
            /\ validCmd'.lenth \in Nat /\ paraLen' = validCmd'.lenth + 9
        BY <1>3, <3>0, <3>4, GetFrames
      <4> QED
        BY <4>1
    <3> QED
      BY <2>1, <3>1, <3>2, <3>3, <3>4
  <2>4. Bounded'
    <3>1. Len(inbox) <= 2 * sends /\ sends \in Nat
      BY BoundAssumption DEF BInv, Bounded
    <3>2. Len(inbox') <= 2 * sends'
      <4>1. Len(inbox') = Len(Tail(inbox)) /\ Len(Tail(inbox)) \in Nat /\ sends' = sends
        BY <1>1, <2>1
      <4> QED
        BY <1>1, <3>1, <4>1
    <3> QED
      BY <1>1, <2>1, <2>3, <3>2 DEF BInv, Bounded
  <2>5. Framed'
    <3>1. cur'[1] = s
      BY <2>1
    <3> QED
      BY <2>3, <3>1 DEF Framed, Understood
  <2> QED
    BY <2>2, <2>3, <2>4, <2>5 DEF BInv
<1> QED
  BY <1>5, <1>6

(* A segment arrives. *)
LEMMA SendBounded ==
    ASSUME BInv, NEW c \in Commands, Send(c)
    PROVE  BInv'
<1>1. /\ sends < MaxSegments /\ sends' = sends + 1
      /\ UNCHANGED <<up, cur, list, flash, paraLen, validCmd, unsent, told,
                   misread, restarts>>
  BY DEF Send, serverVars
<1>2. inbox \in Seq(Sent) /\ Len(inbox) \in Nat /\ sends \in Nat /\ Len(inbox) <= 2 * sends
  BY BoundAssumption DEF BInv, Received, Bounded
<1>3. inbox' \in Seq(Sent) /\ Len(inbox') <= Len(inbox) + 2
  <2>1. CASE inbox' = Append(inbox, Whole(c))
    BY <1>2, <2>1, SegmentsSent
  <2>2. ASSUME NEW b \in Beginnings(c.para), inbox' = inbox \o <<Cut(c, b), Nothing>>
        PROVE  inbox' \in Seq(Sent) /\ Len(inbox') <= Len(inbox) + 2
    BY <1>2, <2>2, SegmentsSent
  <2>3. CASE inbox' = inbox \o <<Nothing, Nothing>>
    BY <1>2, <2>3, SegmentsSent
  <2> QED
    BY <2>1, <2>2, <2>3 DEF Send
<1>4. Len(inbox') <= 2 * sends'
  <2>1. Len(inbox') \in Nat
    BY <1>3
  <2> QED
    BY <1>1, <1>2, <1>3, <2>1
<1>5. Bounded'
  BY <1>1, <1>2, <1>4, BoundAssumption DEF BInv, Bounded
<1>6. Stored' /\ Received'
  BY <1>1, <1>3 DEF BInv, Stored, StoredAsSent, Fits, Supports, Received
<1>7. Framed'
  BY <1>1 DEF BInv, Framed, Understood, Accepted
<1> QED
  BY <1>5, <1>6, <1>7 DEF BInv

(* The reply is written. *)
LEMMA ReplyBounded ==
    ASSUME BInv, Reply
    PROVE  BInv'
<1>1. /\ cur # <<>> /\ validCmd' = Cleared /\ cur' = <<>> /\ unsent' = FALSE
      /\ UNCHANGED <<up, inbox, list, flash, paraLen, told, misread, sends, restarts>>
  BY DEF Reply
<1>2. validCmd'.text \in Texts
  BY <1>1 DEF Cleared, Texts
<1>3. Stored'
  BY <1>1 DEF BInv, Stored, StoredAsSent, Fits, Supports
<1>4. Received' /\ Framed'
  BY <1>1 DEF BInv, Received, Framed
<1>5. Bounded'
  <2>1. unsent' \in BOOLEAN
    BY <1>1
  <2> QED
    BY <1>1, <1>2, <2>1 DEF BInv, Bounded
<1> QED
  BY <1>3, <1>4, <1>5 DEF BInv

(* One step per action. *)
LEMMA StepsBounded == BInv /\ [Next]_vars => BInv'
<1> SUFFICES ASSUME BInv, [Next]_vars PROVE BInv'
  OBVIOUS
<1>1. ASSUME NEW c \in Commands, Send(c) PROVE BInv'
  BY <1>1, SendBounded
<1>2. CASE Receive
  BY <1>2, ReceiveBounded
<1>3. CASE Reply
  BY <1>3, ReplyBounded
<1> USE DEF BInv, Received, Stored, StoredAsSent, Fits, Supports, Bounded, Framed,
            Understood, Accepted
<1>4. CASE Connect
  BY <1>4 DEF Connect, serverVars
<1>5. CASE ConnectionLost
  <2>1. /\ up' = FALSE /\ inbox' = <<>> /\ cur' = <<>> /\ restarts' = restarts + 1
        /\ restarts < MaxRestarts
        /\ UNCHANGED <<list, flash, paraLen, validCmd, told, misread, sends>>
    BY <1>5 DEF ConnectionLost, serverVars
  <2>2. unsent' \in BOOLEAN
    BY <1>5, Zenon DEF ConnectionLost
  <2>3. restarts' \in 0 .. MaxRestarts /\ Len(inbox') <= 2 * sends'
    BY <2>1, BoundAssumption
  <2>4. Bounded'
    <3>1. up' \in BOOLEAN
      BY <2>1
    <3> QED
      BY <2>1, <2>2, <2>3, <3>1, Zenon
  <2>5. Stored'
    BY <2>1
  <2>6. Received' /\ Framed'
    BY <2>1
  <2> QED
    BY <2>4, <2>5, <2>6
<1>6. CASE FrameHeader
  BY <1>6 DEF FrameHeader
<1>7. CASE Restart
  <2>1. restarts' \in 0 .. MaxRestarts
    BY <1>7, BoundAssumption DEF Restart
  <2>2. Boot /\ UNCHANGED <<sends, told, misread>> /\ flash' = flash /\ list' = flash'
    BY <1>7 DEF Restart, Boot
  <2>3. Stored'
    BY <2>2
  <2> QED
    BY <2>1, <2>2, <2>3, BootBounded
<1>8. CASE UNCHANGED vars
  BY <1>8 DEF vars
<1> HIDE DEF BInv
<1> QED
  BY <1>1, <1>2, <1>3, <1>4, <1>5, <1>6, <1>7, <1>8, Zenon DEF Next

(* The inductive invariant: what was sent, stored, meant and answered agree, but for the
   fields whose last command was not read as sent. *)
THEOREM CommandsFit == Spec => []BInv
<1>1. Init => BInv
  BY InitBounded
<1>2. BInv /\ [Next]_vars => BInv'
  BY StepsBounded
<1> QED
  BY <1>1, <1>2, PTL DEF Spec

(* The fields fit SavePara_TypeDef and every reply fits ValidCmd[100], whatever is sent
   in whatever pieces (protocol.c:101-203). *)
THEOREM TypeCorrect == Spec => []TypeOK
<1>1. BInv => TypeOK
  <2> SUFFICES ASSUME BInv PROVE TypeOK
    OBVIOUS
  <2>1. Len(inbox) <= 2 * MaxSegments
    <3>1. Len(inbox) \in Nat /\ sends \in 0 .. MaxSegments /\ Len(inbox) <= 2 * sends
      BY DEF BInv, Received, Bounded
    <3> QED
      BY <3>1, BoundAssumption
  <2>2. Len(cur) <= 1
    <3>1. cur = <<>> \/ \E s \in Sent : cur = <<s>>
      BY DEF BInv, Received
    <3>2. CASE cur = <<>>
      BY <3>2
    <3>3. ASSUME NEW s \in Sent, cur = <<s>> PROVE Len(cur) <= 1
      BY <3>3
    <3> QED
      BY <3>1, <3>2, <3>3
  <2>3. \A f \in Fields : {list[f], flash[f], told[f]} \subseteq FieldValues(f)
    BY DEF BInv, Stored, StoredAsSent, Fits
  <2>4. misread \subseteq Fields
    BY DEF BInv, Stored
  <2> QED
    BY <2>1, <2>2, <2>3, <2>4 DEF BInv, Bounded, TypeOK
<1> QED
  BY <1>1, CommandsFit, PTL

(* RAM holds what the block holds, and the block what the commands meant, over cuts,
   lost connections and restarts; a command that is not read as sent (the wrong numbers,
   or digits of an earlier parameter behind it) changes no field but its own. *)
THEOREM StoredIsSent == Spec => []StoredAsSent
<1>1. BInv => StoredAsSent
  BY DEF BInv, Stored
<1> QED
  BY <1>1, CommandsFit, PTL

(* The size in the block is one the sensor has, unless the last setsiz was not read as
   sent, whatever other commands are. *)
THEOREM SizeIsSupported == Spec => []SizeSupported
<1>1. BInv => SizeSupported
  <2>1. ASSUME NEW v, Fitting(v)
        PROVE  /\ v[1] <= 1024 /\ v[2] <= 768
               /\ 4 * v[2] <= 3 * v[1] + 2 /\ 3 * v[1] <= 4 * v[2] + 3
    <3>1. /\ v[1] \in Pixels /\ v[2] \in Lines
          /\ 4 * v[2] <= 3 * v[1] + 2 /\ 3 * v[1] <= 4 * v[2] + 3
      BY <2>1, Zenon DEF Fitting
    <3>2. v[1] <= 1024
      BY <3>1, SMT DEF Pixels
    <3>3. v[2] <= 768
      BY <3>1, SMT DEF Lines
    <3> QED
      BY <3>1, <3>2, <3>3, SMT
  <2>2. BInv /\ "size" \notin misread => Fitting(flash["size"])
    BY DEF BInv, Stored, Supports
  <2> QED
    BY <2>1, <2>2 DEF SizeSupported
<1> QED
  BY <1>1, CommandsFit, PTL

(* The Lenth of a reply, computed by PollMessage, counts the bytes the server writes
   after it (tcp_server_demo.c:327), although the two are computed apart: of every get
   command, and of a set command that is read as sent. *)
THEOREM RepliesFramed == Spec => ReplyFramed
<1>1. BInv /\ [Next]_vars
        => [(cur # <<>> /\ cur' = <<>> /\ up' /\ Understood(cur[1]))
               => reply'.bytes = reply'.lenth + 12]_vars
  <2> SUFFICES ASSUME BInv, Next, cur # <<>>, cur' = <<>>, up', Understood(cur[1])
               PROVE  reply'.bytes = reply'.lenth + 12
    OBVIOUS
  <2>1. Reply
    BY DEF Next, Connect, Send, Receive, ConnectionLost, FrameHeader, Restart, Boot
  <2>2. validCmd.lenth \in Nat /\ paraLen = validCmd.lenth + 9
    BY DEF BInv, Framed
  <2>3. reply'.lenth = validCmd.lenth /\ reply'.bytes = paraLen + 3
    BY <2>1 DEF Reply
  <2> QED
    BY <2>2, <2>3
<1> QED
  BY <1>1, CommandsFit, PTL DEF Spec, ReplyFramed
=============================================================================
