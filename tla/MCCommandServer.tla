--------------------------- MODULE MCCommandServer ---------------------------
EXTENDS CommandServer

Defaults ==
    [mode |-> <<99>>, cap |-> <<0>>, ip |-> <<192, 168, 1, 150>>, port |-> <<8088>>,
     size |-> <<640, 480>>, rate |-> <<30>>, bright |-> <<50>>, contrast |-> <<50>>,
     exp |-> <<60>>, pol |-> <<1>>]

Command1(c, p) == [cmd |-> c, para |-> p]

(* Set commands of every kind of field, one of them too wide for it; set commands that
   are accepted with the wrong numbers: two for one, fewer than the field has, one of
   ten digits; get commands, with the parameter they need, and without. *)
TypicalCommands ==
    {Command1("setmod", Scalar(1)), Command1("setbrt", Scalar(300)),
     Command1("setpot", Scalar(9000)), Command1("setipa", Array(<<10, 0, 0, 7>>)),
     Command1("setsiz", Array(<<1300, 700>>)),
     Command1("setsiz", Scalar(500)), Command1("setipa", Array(<<1, 2>>)),
     Command1("setcon", Array(<<1, 2>>)), Command1("setrat", Scalar(1000000000)),
     Command1("getipa", Scalar(0)), Command1("getpot", Scalar(0)),
     Command1("getbrt", NoText), Command1("getver", Scalar(0)),
     Command1("gethep", Scalar(0))}

\* Nothing, or the end of an array of which six digits and a number are left.
SomeResidues == {NoResidue, [digits |-> <<123456>>, more |-> <<150>>]}
SomeInts == {-3, 70000}
=============================================================================
