------------------------------- MODULE MCLibrary -------------------------------
EXTENDS Library

(* A phone with a file, and a directory in a directory with another file.   *)
SomeTree ==
  (Root :> Dir) @@ (<<"/", "a">> :> File(<<1, 2, 3>>))
    @@ (<<"/", "d">> :> Dir) @@ (<<"/", "d", "/", "e">> :> Dir)
    @@ (<<"/", "d", "/", "e", "/", "b">> :> File(<<>>))
SomePaths == {<<>>, <<"/", "a">>, <<"/", "d", "/">>}
SomeDatas == {<<4, 5>>}
SomeSpcs == {<<0, 0, 0, 0, 0, 0>>, <<0>>}

(* All expressions of up to three characters, three numbers with any two    *)
(* operators between them, and some that are refused, not refused though    *)
(* they mean nothing, too long for a float, or go on after a parenthesis.   *)
SomeChars == {"1", "-", "(", ")"}
Strings == UNION {[1 .. n -> SomeChars] : n \in 0 .. 3}
Sums ==
  {<<"3", o, "2", p, c>> : c \in {"0", "2"},
                         o \in {"-", "/", "^", "%"}, p \in {"-", "/", "^", "%"}}
Others ==
  {<<"_", "1", "-", "2">>, <<"9", "-", "1", "2">>, <<"1", "7", "-", "1">>,
   <<"1", " ", "2">>, <<" ">>, <<"1", "-", " ">>, <<"4", "*", "4", "-", "3">>,
   <<"2", "-", "(", "1", ")", "+", "2">>,
   <<"2", "*", "(", "1", "-", "(", "2", ")", ")">>, <<"x", "-", "1">>}
SomeExpressions == Strings \cup Sums \cup Others

(* Sums whose results are fractions, negative, or too long for an int, what *)
(* is not calculated though it could be, numbers too long for 64 bits, which *)
(* a float takes for less when they are divided, and names with operators.  *)
SomeRaw ==
  {<<"START_SECTOR", v>> :
     v \in {<<"disk", "-", "3">>, <<"2", "-", "7">>, <<"1", "-", "2", "/", "0">>,
            <<"2", "*", "(", "3", "-", "1", ")">>, <<"9", "%", "4">>,
            <<"2", "0", "4", "8">>, <<"2", "0", "4", "8", "/", "4">>}}
  \cup {<<"NUM_PARTITION_SECTORS", v>> :
     v \in {<<"7", "/", "2">>, <<"2", "*", "5", "0">>, <<"2", "^", "3">>,
            <<"8", "*", "4">>, <<"(", "5", ")">>}}
  \cup {<<"FILENAME", <<"1", "(", "2", "/", "1">>>>,
        <<"SIZE_IN_KB", <<"4">>>>,
        <<"START_BYTE_HEX", <<"4", "f">>>>, <<"START_BYTE_HEX", <<"4", "0", "0">>>>,
        <<"START_BYTE_HEX", <<"1", "4", "-", "2">>>>}
SomeSahara ==
  {<<"IMAGE_ID", <<"7">>>>, <<"IMAGE_ID", <<"1", "0", "0">>>>,
   <<"IMAGE_ID", <<"1", "+", "2">>>>, <<"IMAGE_ID", <<"1", "0", "2", "4">>>>,
   <<"IMAGE_ID", <<>>>>, <<"IMAGE_PATH", <<"x">>>>, <<"PROGRAMMER", <<>>>>}
SomeSectors == <<"9">>

SomeMbnHeaders ==
  [magic : BOOLEAN, elf : BOOLEAN, id : {2, 99}, src : {0, 8, 28, 40},
   code : {8, 31}, signature : {0, 4, 40}, certs : {0, 8}]

(* Before the file, in it, and so far on that an int ends before the entries *)
(* begin, at 32.                                                             *)
SomeStarts == {-2, 0, 2, 4, 24, 30, 32, 40}

(* A decimal MEID with one digit in its second part is as long as a         *)
(* hexadecimal one, as with the code's sizes one with four digits is.       *)
MeidHexDigits == <<3, 2>>
MeidDecDigits == <<4, 3>>
EsnHexDigits == <<1, 1>>
EsnDecDigits == <<2, 2>>
===============================================================================
