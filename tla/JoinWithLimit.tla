--------------------------- MODULE JoinWithLimit ---------------------------
(***************************************************************************)
(* join_with_limit: how a list of error strings is cut into the texts of   *)
(* embeds.  A string is known by its place in the list and its length.     *)
(***************************************************************************)
EXTENDS Integers, SequencesExt

CONSTANTS Vectors,  \* the lists, as sequences of lengths
          length    \* bot_max_embed_chars

ASSUME LimitAssumption ==
    /\ Vectors \subseteq Seq(Nat)
    /\ length \in Nat \ {0}

VARIABLES
    vector,        \* the list
    string,        \* the place of the string the loop is at
    to_send,       \* the places of the strings in the current slice
    current_size,  \* their characters, newlines not counted
    result         \* the slices handed in

joinVars == <<vector, string, to_send, current_size, result>>

JoinTypeOK ==
    /\ vector \in Vectors
    /\ string \in 1 .. Len(vector) + 1
    /\ to_send \in Seq(1 .. Len(vector))
    /\ current_size \in 0 .. length
    /\ result \in Seq(Seq(1 .. Len(vector)))

JoinInit ==
    /\ vector \in Vectors
    /\ string = 1
    /\ to_send = <<>>
    /\ current_size = 0
    /\ result = <<>>

\* Mutant of Fits: off by one, a slice is never filled.
FitsBelow == vector[string] + current_size + 1 < length

\* Room for one newline is asked for; those already in to_send do not count.
Fits == vector[string] + current_size + 1 <= length

\* The last string of the list also hands in what has been gathered.
HandIn(slices, slice) ==
    result' = IF string = Len(vector) THEN Append(slices, slice) ELSE slices

Gather ==
    /\ string <= Len(vector) /\ Fits
    /\ to_send' = Append(to_send, string)
    /\ current_size' = current_size + vector[string]
    /\ HandIn(result, to_send')

\* Mutant of StartSlice: current_size is not reset.
StartSliceWithoutReset ==
    /\ string <= Len(vector) /\ ~Fits /\ vector[string] <= length
    /\ to_send' = <<string>>
    /\ current_size' = current_size + vector[string]
    /\ HandIn(Append(result, to_send), to_send')

StartSlice ==
    /\ string <= Len(vector) /\ ~Fits /\ vector[string] <= length
    /\ to_send' = <<string>>
    /\ current_size' = vector[string]
    /\ HandIn(Append(result, to_send), to_send')

\* Mutant of Drop: forgets to hand in the last slice.
DropQuietly ==
    /\ string <= Len(vector) /\ ~Fits /\ vector[string] > length
    /\ UNCHANGED <<to_send, current_size, result>>

\* A string longer than a whole slice is dropped.
Drop ==
    /\ string <= Len(vector) /\ ~Fits /\ vector[string] > length
    /\ UNCHANGED <<to_send, current_size>>
    /\ HandIn(result, to_send)

JoinNext ==
    /\ Gather \/ StartSlice \/ Drop
    /\ string' = string + 1
    /\ UNCHANGED vector

JoinSpec == JoinInit /\ [][JoinNext]_joinVars

-----------------------------------------------------------------------------
Done == string > Len(vector)

\* The characters of a slice's strings.
Total(list, slice) ==
    LET sum[k \in 0 .. Len(slice)] == IF k = 0 THEN 0 ELSE sum[k - 1] + list[slice[k]]
    IN  sum[Len(slice)]

\* The places of those among the first n strings that fit into a slice at all.
Showable(list, n) ==
    LET places[k \in 0 .. Len(list)] ==
            IF k = 0 THEN <<>>
            ELSE IF list[k] <= length THEN Append(places[k - 1], k) ELSE places[k - 1]
    IN  places[n]

\* The slices hold every string that can be shown at all, once and in order.
NothingLostOrReordered == Done => FlattenSeq(result) = Showable(vector, Len(vector))

\* Newlines not counted, no slice exceeds the limit, and a new one is opened only
\* when the next string and one newline would not have gone into the one before.
\* That may leave an empty slice, but only as the first: before a string exactly
\* as long as the limit, or alone, when there is nothing to show.
SlicesAreTight ==
    Done =>
        /\ \A n \in DOMAIN result : Total(vector, result[n]) <= length
        /\ \A n \in 1 .. Len(result) - 1 :
              Total(vector, result[n]) + vector[result[n + 1][1]] + 1 > length
        /\ \A n \in DOMAIN result :
              result[n] = <<>> => n = 1 /\ (Len(result) = 1 \/ vector[result[2][1]] = length)

=============================================================================
