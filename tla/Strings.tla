-------------------------------- MODULE Strings --------------------------------
(***************************************************************************)
(* string_split and string_strip of string.c, which cut up everything the  *)
(* program reads.  string_split is taken step by step: trailing blanks are *)
(* popped (string_rstrip_ws), runs of the delimiter are reduced to one     *)
(* (string_remove_dubseq, which looks past the end of the content), and    *)
(* the rest is cut into tokens.  Indices count from 0, as in the code.     *)
(***************************************************************************)
EXTENDS Naturals, Sequences, FiniteSets

CONSTANTS
    Plain,        \* bytes that are in no dictionary
    Blank,        \* strip_dict_ws
    Quote,        \* what strip_dict has besides
    Delims,       \* the delimiters the program passes to string_split
    InitBuffer,   \* STRING_INIT_BUFFER
    MaxLen,       \* bound on the length of the input
    MaxOver,      \* bound on the bytes behind a block that equal the delimiter
    NONE

ASSUME AlphabetAssumption == Delims \subseteq Blank /\ Plain \cap (Blank \cup Quote) = {}
ASSUME BoundsAssumption   == {InitBuffer, MaxLen, MaxOver} \subseteq Nat

VARIABLES
    input,   \* history: the string as it was passed
    delm,    \* the delimiter
    s,       \* the content of the string
    room,    \* the zeroed bytes between the content and the end of the block
    j,       \* string_remove_dubseq's index
    cb, ccur,   \* string_split's: the start of the token, the byte looked at
    tokens,  \* the list of tokens, NONE as long as there is no list
    pc

vars == <<input, delm, s, room, j, cb, ccur, tokens, pc>>

Alphabet == Plain \cup Blank \cup Quote
Inputs   == UNION {[1..n -> Alphabet] : n \in 0..MaxLen}

\* A string made by appending has the rest of its first buffer behind it, one
\* that was cut or read from a file has nothing.
Rooms(str) == {0} \cup {n \in 1..InitBuffer : n + Len(str) = InitBuffer}

Init ==
    /\ input \in Inputs /\ delm \in Delims
    /\ s = input /\ room \in Rooms(input)
    /\ j = 0 /\ cb = 0 /\ ccur = 0 /\ tokens = NONE
    /\ pc = "called"

Byte(i) == s[i + 1]
Size    == Len(s)
From(str, i, k) == SubSeq(str, i + 1, k)

Goto(l) == pc' = l /\ UNCHANGED <<input, delm>>

-----------------------------------------------------------------------------
(* string_strip.                                                           *)

Dict == Blank \cup Quote

\* Mutant of Strip: string_lstrip spares the last byte, as string_rstrip does.
StripSparesLast(str) ==
    LET Kept(i) == str[i + 1] \notin Dict
        last  == {0} \cup {i \in 0..Len(str) - 1 : Kept(i)}
        right == From(str, 0, 1 + CHOOSE i \in last : \A k \in last : k <= i)
        first == {i \in 0..Len(right) - 1 : i = Len(right) - 1 \/ Kept(i)}
    IN  From(right, CHOOSE i \in first : \A k \in first : i <= k, Len(right))

\* The loop of string_rstrip ends before index 0, that of string_lstrip after
\* the last byte; the content that is left fills its block.
Strip(str) ==
    LET Kept(i) == str[i + 1] \notin Dict
        last  == {0} \cup {i \in 0..Len(str) - 1 : Kept(i)}
        right == From(str, 0, 1 + CHOOSE i \in last : \A k \in last : k <= i)
        first == {i \in 0..Len(right) : i = Len(right) \/ Kept(i)}
    IN  From(right, CHOOSE i \in first : \A k \in first : i <= k, Len(right))

CallStrip ==
    /\ pc = "called"
    /\ \/ Size < 3 /\ UNCHANGED <<s, room>>
       \/ Size >= 3 /\ s' = Strip(s) /\ room' = 0
    /\ Goto("stripped")
    /\ UNCHANGED <<j, cb, ccur, tokens>>

-----------------------------------------------------------------------------
(* string_split.                                                           *)

\* An empty string is refused before the list is made.
CallSplit ==
    /\ pc = "called"
    /\ Goto(IF Size = 0 THEN "refused" ELSE "rstrip")
    /\ UNCHANGED <<s, room, j, cb, ccur, tokens>>

PopBlank ==
    /\ pc = "rstrip" /\ Size > 2 /\ Byte(Size - 1) \in Blank
    /\ s' = From(s, 0, Size - 1) /\ room' = 0
    /\ Goto("rstrip")
    /\ UNCHANGED <<j, cb, ccur, tokens>>

\* Mutant of Trimmed: blanks may stay.
TrimmedEarly ==
    /\ pc = "rstrip"
    /\ Goto("dedup")
    /\ UNCHANGED <<s, room, j, cb, ccur, tokens>>

Trimmed ==
    /\ pc = "rstrip" /\ (Size <= 2 \/ Byte(Size - 1) \notin Blank)
    /\ Goto("dedup")
    /\ UNCHANGED <<s, room, j, cb, ccur, tokens>>

\* The end of the run of delimiters that starts at j.  If it is the end of
\* the block too, the loop goes on over as many bytes as match behind it.
RunEnd == LET ends == {e \in j + 1..Size : e = Size \/ Byte(e) # delm}
          IN  CHOOSE e \in ends : \A f \in ends : e <= f

Over == IF RunEnd = Size /\ room = 0 THEN 0..MaxOver ELSE {0}

NextByte ==
    /\ pc = "dedup" /\ j < Size
    /\ Byte(j) # delm \/ (RunEnd = j + 1 /\ 0 \in Over)
    /\ j' = j + 1
    /\ Goto("dedup")
    /\ UNCHANGED <<s, room, cb, ccur, tokens>>

\* Mutant of Reduce: a single delimiter is a run.
ReduceSingle(over) ==
    /\ pc = "dedup" /\ j < Size /\ Byte(j) = delm /\ over \in Over
    /\ LET end == RunEnd + over - 1
       IN  /\ end >= j
           /\ \/ /\ end - j > Size
                 /\ Goto("dedup") /\ UNCHANGED <<s, room>>
              \/ /\ end - j <= Size /\ end > Size
                 /\ Goto("crashed") /\ UNCHANGED <<s, room>>
              \/ /\ end <= Size
                 /\ s' = From(s, 0, j) \o From(s, end, Size) /\ room' = 0
                 /\ Goto("dedup")
    /\ j' = 0
    /\ UNCHANGED <<cb, ccur, tokens>>

\* da_remove(begin, end) of all the run but one byte.  Its range check looks
\* at the length only; an end past the content makes da_sub fail, and
\* da_merge follows the NULL it leaves.  A refusal is logged and retried.
Reduce(over) ==
    /\ pc = "dedup" /\ j < Size /\ Byte(j) = delm /\ over \in Over
    /\ LET end == RunEnd + over - 1
       IN  /\ end > j
           /\ \/ /\ end - j > Size
                 /\ Goto("dedup") /\ UNCHANGED <<s, room>>
              \/ /\ end - j <= Size /\ end > Size
                 /\ Goto("crashed") /\ UNCHANGED <<s, room>>
              \/ /\ end <= Size
                 /\ s' = From(s, 0, j) \o From(s, end, Size) /\ room' = 0
                 /\ Goto("dedup")
    /\ j' = 0
    /\ UNCHANGED <<cb, ccur, tokens>>

Deduped ==
    /\ pc = "dedup" /\ j >= Size
    /\ tokens' = <<>>
    /\ Goto("cut")
    /\ UNCHANGED <<s, room, j, cb, ccur>>

AtCut == ccur = Size \/ (ccur < Size /\ Byte(ccur) = delm)

\* Mutant of PushToken: the next token starts at the delimiter.
PushTokenAndCut ==
    /\ pc = "cut" /\ AtCut
    /\ tokens' = Append(tokens, From(s, cb, ccur))
    /\ cb' = ccur /\ ccur' = ccur + 2
    /\ Goto("cut")
    /\ UNCHANGED <<s, room, j>>

\* cb = ++ccur, and ++ccur once more: the first byte of a token is not looked at.
PushToken ==
    /\ pc = "cut" /\ AtCut
    /\ tokens' = Append(tokens, From(s, cb, ccur))
    /\ cb' = ccur + 1 /\ ccur' = ccur + 2
    /\ Goto("cut")
    /\ UNCHANGED <<s, room, j>>

\* Mutant of Advance: the loop does not stop at the end.
AdvanceEndless ==
    /\ pc = "cut" /\ ~AtCut
    /\ ccur' = ccur + 1
    /\ Goto("cut")
    /\ UNCHANGED <<s, room, j, cb, tokens>>

Advance ==
    /\ pc = "cut" /\ ccur < Size /\ ~AtCut
    /\ ccur' = ccur + 1
    /\ Goto("cut")
    /\ UNCHANGED <<s, room, j, cb, tokens>>

Return ==
    /\ pc = "cut" /\ ccur > Size
    /\ Goto("split")
    /\ UNCHANGED <<s, room, j, cb, ccur, tokens>>

Ended == pc \in {"stripped", "refused", "split", "crashed"} /\ UNCHANGED vars

Step == \/ PopBlank \/ Trimmed \/ NextByte \/ (\E over \in 0..MaxOver : Reduce(over))
        \/ Deduped \/ PushToken \/ Advance \/ Return

Next == CallStrip \/ CallSplit \/ Step \/ Ended

Spec == Init /\ [][Next]_vars

\* A running function goes on.
FairSpec == Spec /\ WF_vars(Step)
-----------------------------------------------------------------------------
(* The types of the variables; the indices stay within two bytes of the   *)
(* content.                                                                *)
TypeOK ==
    /\ input \in Inputs /\ delm \in Delims
    /\ s \in Inputs /\ room \in 0..InitBuffer
    /\ j \in 0..MaxLen /\ cb \in 0..MaxLen + 1 /\ ccur \in 0..MaxLen + 2
    /\ tokens = NONE \/ tokens \in Seq(Inputs)
    /\ pc \in {"called", "stripped", "refused", "rstrip", "dedup", "cut",
               "split", "crashed"}

\* What is left of a string when everything of Set is taken from both ends.
Trim(str, Set) ==
    LET kept == {i \in 1..Len(str) : str[i] \notin Set}
    IN  IF kept = {} THEN <<>>
        ELSE SubSeq(str, CHOOSE i \in kept : \A k \in kept : i <= k,
                         CHOOSE i \in kept : \A k \in kept : k <= i)

(* string_strip takes all blanks and quotes from both ends, the whole of a *)
(* string that has nothing else included, and leaves strings of fewer than *)
(* three bytes as they are.                                                *)
StripTrims ==
    pc = "stripped" => s = IF Len(input) < 3 THEN input ELSE Trim(input, Dict)

\* The maximal runs of other bytes than the delimiter, in order.
Words(str) ==
    LET first == {i \in 1..Len(str) : str[i] # delm /\ (i = 1 \/ str[i - 1] = delm)}
        End(i) == CHOOSE k \in i..Len(str) :
                      /\ \A n \in i..k : str[n] # delm
                      /\ k = Len(str) \/ str[k + 1] = delm
        Nth(n) == CHOOSE i \in first : n = Cardinality({k \in first : k <= i})
    IN  [n \in 1..Cardinality(first) |-> SubSeq(str, Nth(n), End(Nth(n)))]

\* The input after string_rstrip_ws.
TrimmedInput ==
    LET ends == {n \in 0..Len(input) : n <= 2 \/ input[n] \notin Blank}
    IN  SubSeq(input, 1, CHOOSE n \in ends : \A k \in ends : k <= n)

\* The strings whose last byte may still be the delimiter.
Short == /\ Len(TrimmedInput) \in 1..2
         /\ TrimmedInput[Len(TrimmedInput)] = delm

(* What string_split returns are the words between the delimiters, in      *)
(* order, none empty, except for one empty token in front of a string that *)
(* starts with the delimiter.                                              *)
SplitGivesWords ==
    pc = "split" =>
        tokens = (IF TrimmedInput[1] = delm THEN <<(<<>>)>> ELSE <<>>)
                 \o Words(TrimmedInput)

(* Looking past the content in string_remove_dubseq can only hurt where    *)
(* string_rstrip_ws has left the delimiter at the end: in strings of one   *)
(* or two bytes.                                                           *)
OverreadOnlyShort == pc = "crashed" => Short

(* In all other strings string_split comes to its end, though every        *)
(* reduction starts string_remove_dubseq again from the first byte.        *)
SplitEnds == (pc = "rstrip" /\ ~Short) ~> (pc = "split")
=============================================================================
