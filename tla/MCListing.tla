------------------------------ MODULE MCListing ------------------------------
(***************************************************************************)
(* Files of two records and their end in which every word there is gets    *)
(* listed, lds16 with only some of its operands, and some files that are   *)
(* not so well formed.                                                     *)
(***************************************************************************)
EXTENDS Listing

R(address, words, type, eol) ==
    [address |-> address, bytes |-> 2 * Len(words), words |-> words, type |-> type, eol |-> eol]
End == R(0, <<>>, 1, 2)
Odd(r) == [r EXCEPT !.bytes = @ - 1]

Run50(first) == [i \in 1 .. 50 |-> ByteSwap((first + i - 1) % WORD)]

Hundred(first) == <<R(0, Run50(first), 0, 2), R(100, Run50(first + 50), 0, 2), End>>

(* 43008 is the first word behind those of lds16, at which listings stay.  *)
AllWords == {Hundred(100 * k) : k \in 0 .. 655} \cup {Hundred(43008)}

(* The words that AllWords has behind an instruction of two words are not  *)
(* listed there: here a nop is behind each of them.                        *)
BehindLong == <<36865, 37377, 37901, 37902, 37903, 37904>>
Run48(first) ==
    [i \in 1 .. 48 |->
        LET n == first + i - 1
        IN  IF n % 2 = 1 THEN 0
            ELSE ByteSwap(BehindLong[(n % 12) \div 2 + 1] + 16 * (n \div 12))]
SkippedWords == {<<R(0, Run48(96 * k), 0, 2), R(96, Run48(96 * k + 48), 0, 2), End>> : k \in 0 .. 3}

(* Records that overlap, one after the other and in the other order. *)
Overlapping == <<R(0, <<3092, 148>>, 0, 2), R(2, <<14600, 8>>, 0, 2), End>>
Backwards == <<R(4, <<3092, 148>>, 0, 2), R(0, <<14600, 8, 3>>, 0, 2), End>>

(* A record too many, one with an odd number of bytes, lines that end with *)
(* one character, an extended address, no end, an address outside.         *)
TooLong == <<R(0, <<1>>, 0, 2), R(2, <<2>>, 0, 2), R(4, <<3>>, 0, 2), End>>
OddBytes == <<Odd(R(0, <<1, 2>>, 0, 2)), R(4, <<3>>, 0, 2), End>>
OneCharacter == <<R(0, <<1, 2>>, 0, 1), R(4, <<3>>, 0, 1), End>>
Extended == <<R(0, <<4096>>, 4, 2), R(0, <<1, 2>>, 0, 2), End>>
NoEnd == <<R(6, <<1, 2>>, 0, 2)>>
Outside == <<R(200, <<1, 2>>, 0, 2), End>>

OddFiles == {Overlapping, Backwards, TooLong, OddBytes, OneCharacter, Extended, NoEnd, Outside}
SomeFiles == {Overlapping, Backwards, Extended, NoEnd}
AllFiles == AllWords \cup SkippedWords \cup OddFiles
SomeStarts == {0, 1, 99, 65535}
SomeLengths == {0, 1, 255}
=============================================================================
