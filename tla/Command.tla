------------------------------- MODULE Command -------------------------------
(***************************************************************************)
(* The commands of the client and what protocol.c reads out of them.  The    *)
(* parameter of a command is text, of which only this matters: whether it is *)
(* an array ("[640,480]") or not ("8088"), its numbers, and its length.      *)
(***************************************************************************)
EXTENDS Integers, Sequences, FiniteSets

CONSTANTS
    Residues    \* what may follow a parameter in PollMessage's Para[20], which is
                \* on the stack and filled without a terminator

(* The rest of an earlier parameter: digits (one number, or none), and the further numbers of an array, each
   after a comma, with its bracket. *)
Residue == [digits : Seq(Nat), more : Seq(Nat)]
NoResidue == [digits |-> <<>>, more |-> <<>>]

ASSUME ResidueAssumption ==
    Residues # {} /\ \A r \in Residues : r \in Residue /\ Len(r.digits) <= 1

SetCommands == {"setmod", "setcap", "setipa", "setpot", "setsiz", "setrat",
                "setbrt", "setcon", "setexp", "setpol"}
GetCommands == {"getver", "getipa", "getpot", "getsiz", "getrat", "getbrt",
                "getcon", "getexp"}

\* The field of SavePara_TypeDef that a command is about.
FieldOf ==
    [setmod |-> "mode", setcap |-> "cap", setipa |-> "ip", setpot |-> "port",
     setsiz |-> "size", setrat |-> "rate", setbrt |-> "bright",
     setcon |-> "contrast", setexp |-> "exp", setpol |-> "pol",
     getipa |-> "ip", getpot |-> "port", getsiz |-> "size", getrat |-> "rate",
     getbrt |-> "bright", getcon |-> "contrast", getexp |-> "exp"]

Fields == {"mode", "cap", "ip", "port", "size", "rate", "bright", "contrast",
           "exp", "pol"}

Elements == [f \in Fields |-> CASE f = "ip" -> 4 [] f = "size" -> 2 [] OTHER -> 1]

\* u16 port and size, u8 everything else
Modulus == [f \in Fields |-> IF f \in {"port", "size"} THEN 65536 ELSE 256]

Parameter == [array : BOOLEAN, numbers : Seq(Nat)]
Scalar(n) == [array |-> FALSE, numbers |-> <<n>>]
Array(s) == [array |-> TRUE, numbers |-> s]
NoText == [array |-> FALSE, numbers |-> <<>>]
HelpText == [help |-> 55]       \* the list of commands, of 55 characters

-----------------------------------------------------------------------------
(* Text *)

\* Characters of a number; one of ten stands for all longer ones, which are not taken.
Width(n) ==
    IF n = 0 THEN 1 ELSE CHOOSE k \in 1 .. 10 : 10^(k - 1) <= n /\ (k < 10 => n < 10^k)

(* The digits of the numbers of s: <<i, k>> is the k-th digit of the i-th number. *)
Digits(s) == {x \in (DOMAIN s) \X (1 .. 10) : x[2] <= Width(s[x[1]])}

TextLen(p) ==
    IF p = HelpText THEN p.help
    ELSE Cardinality(Digits(p.numbers))
         + (IF p.numbers = <<>> THEN 0 ELSE Len(p.numbers) - 1)     \* commas
         + (IF p.array THEN 2 ELSE 0)

GetParaLen(p) == IF TextLen(p) > 20 THEN 255 ELSE TextLen(p)

-----------------------------------------------------------------------------
(* The parameters of a set command *)

AtMost(n, bound) == IF n > bound THEN bound ELSE n

\* A number of ten characters or more is not taken.
Short(n) == Width(n) < 10

\* The numbers of s that are taken, in their order.
Taken(s) ==
    LET at == {i \in DOMAIN s : Short(s[i])}
    IN [k \in 1 .. Cardinality(at) |->
           s[CHOOSE i \in at : Cardinality({j \in at : j <= i}) = k]]

\* The characters of the digits that follow a parameter.
TailWidth(residue) == IF residue.digits = <<>> THEN 0 ELSE Width(residue.digits[1])

\* A plain number with the digits that follow it.
Followed(n, residue) ==
    IF residue.digits = <<>> THEN Taken(<<n>>)
    ELSE IF Width(n) + TailWidth(residue) < 10
           THEN <<n * 10^TailWidth(residue) + residue.digits[1]>>
           ELSE <<>>

(* An array whose last number is not followed by the end of the text but by the comma
   of an earlier one: it is taken with its bracket and the digits up to there, and so
   are the numbers beyond. *)
Overread(s, residue) ==
    LET last == Len(s)
        end == IF Width(s[last]) + 1 + TailWidth(residue) < 10 THEN <<s[last]>> ELSE <<>>
    IN IF residue.more = <<>> THEN Taken(s)
       ELSE Taken(SubSeq(s, 1, last - 1)) \o end \o Taken(residue.more)

(* Scan_Params(para, ., 8): the numbers of an array, at most eight, "[]" being a zero;
   of any other text the number before the first comma, which ends it, or else what
   follows belongs to it. *)
Scan_Params(p, residue) ==
    IF p.array
      THEN LET found == Overread(IF p.numbers = <<>> THEN <<0>> ELSE p.numbers, residue)
           IN SubSeq(found, 1, AtMost(Len(found), 8))
    ELSE IF Len(p.numbers) = 1 THEN Followed(p.numbers[1], residue)
    ELSE Taken(SubSeq(p.numbers, 1, AtMost(Len(p.numbers), 1)))

\* Mutant: each side is cut, the ratio is left as it is.
Supported_AnyRatio(w, h) == <<AtMost(w, 1024), AtMost(h, 768)>>

(* Pro_setsiz: within 1024x768, and the larger side cut to 4:3.  The products with
   0.75 and 4.0/3.0, truncated, are exact quotients of what fits. *)
Supported(w, h) ==
    LET w1 == AtMost(w, 1024)
        h1 == AtMost(h, 768)
    IN IF 4 * h1 >= 3 * w1 THEN <<w1, (3 * w1) \div 4>>
       ELSE <<(4 * h1) \div 3, h1>>

\* What Pro_setsiz makes of the numbers found, the second of which may be missing.
Given(f, found, scanned) ==
    IF f = "size" /\ found # <<>>
      THEN Supported(found[1], IF Len(found) >= 2 THEN found[2] ELSE scanned)
      ELSE found

\* Mutant: the number is stored as it is.
FieldValue_Wide(f, found, scanned, kept) ==
    [i \in 1 .. Elements[f] |->
        IF i <= Len(found) THEN Given(f, found, scanned)[i] ELSE kept[i]]

(* RtnValue and SaveParaList: the numbers found, narrowed to the field.  A number that
   was not found is what an array on the stack held: scanned in Pro_setsiz, kept in
   PollMessage. *)
FieldValue(f, found, scanned, kept) ==
    [i \in 1 .. Elements[f] |->
        (IF i <= Len(found) THEN Given(f, found, scanned)[i] ELSE kept[i]) % Modulus[f]]

\* The text of a field in a reply: "[a,b]" or "a".
FieldText(f, value) == IF f \in {"ip", "size"} THEN Array(value) ELSE Scalar(value[1])
=============================================================================
