------------------------------ MODULE Wildcard ------------------------------
(***************************************************************************)
(* Utils::strcmp: does a topic name match a pattern with "*" and "?"?      *)
(* One step is one turn of one of its three loops.  Pointers are indices   *)
(* into the texts, Len + 1 being the terminating NUL.                      *)
(***************************************************************************)
EXTENDS Integers, SequencesExt

CONSTANTS
    Letters,    \* characters of a name
    MaxPattern, \* longest pattern
    MaxName     \* longest name

ASSUME LengthAssumption == MaxPattern \in Nat /\ MaxName \in Nat
\* A C string ends at its first NUL.
ASSUME LetterAssumption == "NUL" \notin Letters

Patterns == SeqOf(Letters \cup {"*", "?"}, MaxPattern)
Names    == SeqOf(Letters, MaxName)

VARIABLES
    wild, string,  \* the two arguments
    phase,         \* which loop is running, or "done"
    w, s,          \* the moving pointers
    m, c,          \* where to go on after a mismatch, 0 for NULL
    result

arguments == <<wild, string>>
vars      == <<arguments, phase, w, s, m, c, result>>

Init ==
    /\ wild \in Patterns /\ string \in Names
    /\ phase = "literal"
    /\ w = 1 /\ s = 1 /\ m = 0 /\ c = 0
    /\ result = FALSE

At(text, i)  == IF i <= Len(text) THEN text[i] ELSE "NUL"
Fits         == At(wild, w) \in {At(string, s), "?"}
More         == At(string, s) # "NUL"
Star         == At(wild, w) = "*"

Return(r) == phase' = "done" /\ result' = r /\ UNCHANGED <<arguments, w, s, m, c>>

\* The first loop: up to the first "*" the texts agree character by character.
Literal ==
    /\ phase = "literal"
    /\ \/ /\ More /\ ~Star /\ Fits
          /\ w' = w + 1 /\ s' = s + 1
          /\ UNCHANGED <<arguments, phase, m, c, result>>
       \/ More /\ ~Star /\ ~Fits /\ Return(FALSE)
       \/ /\ ~More \/ Star
          /\ phase' = "search"
          /\ UNCHANGED <<arguments, w, s, m, c, result>>

\* Mistakes: the next attempt starts where the last one failed; one too far.
RetryHere == s
RetryPast == c + 1

\* s = c++: the next attempt starts one character after the last one did.
RetryFrom == c

\* The second loop: after a "*" the rest of the pattern is tried at one
\* position of the name after the other.
Search ==
    /\ phase = "search"
    /\ \/ /\ More /\ Star
          /\ \/ w = Len(wild) /\ Return(TRUE)
             \/ /\ w < Len(wild)
                /\ w' = w + 1 /\ m' = w + 1 /\ c' = s + 1
                /\ UNCHANGED <<arguments, phase, s, result>>
       \/ /\ More /\ ~Star /\ Fits
          /\ w' = w + 1 /\ s' = s + 1
          /\ UNCHANGED <<arguments, phase, m, c, result>>
       \/ /\ More /\ ~Star /\ ~Fits
          /\ w' = m /\ s' = RetryFrom /\ c' = RetryFrom + 1
          /\ UNCHANGED <<arguments, phase, m, result>>
       \/ /\ ~More
          /\ phase' = "trailing"
          /\ UNCHANGED <<arguments, w, s, m, c, result>>

\* A mistake: the name is at its end, so it matches.
EndOfName == TRUE

\* return (bool)!*w
EndOfPattern == w > Len(wild)

\* The third loop: what is left of the pattern may only be "*".
Trailing ==
    /\ phase = "trailing"
    /\ \/ /\ Star
          /\ w' = w + 1
          /\ UNCHANGED <<arguments, phase, s, m, c, result>>
       \/ ~Star /\ Return(EndOfPattern)

Done == phase = "done" /\ UNCHANGED vars

Step == Literal \/ Search \/ Trailing
Next == Step \/ Done
Spec == Init /\ [][Next]_vars
FairSpec == Spec /\ WF_vars(Step)

-----------------------------------------------------------------------------
\* The meaning of a pattern: "?" stands for one character, "*" for any number.
\* Per place in the pattern, the places in the name such that the rest of the
\* one matches the rest of the other.
Matching(pattern, name) ==
    LET places[i \in 1 .. Len(pattern) + 1] ==
          IF i > Len(pattern) THEN {Len(name) + 1}
          ELSE IF pattern[i] = "*"
               THEN {j \in 1 .. Len(name) + 1 : \E k \in places[i + 1] : j <= k}
               ELSE {j \in 1 .. Len(name) : /\ pattern[i] \in {name[j], "?"}
                                          /\ j + 1 \in places[i + 1]}
    IN  places

Match == 1 \in Matching(wild, string)[1]

\* The answer is the meaning of the pattern, for every pattern and name.
\* (Utils::strcmp; src/README.md:69)
AnswerIsMatch == phase = "done" => (result <=> Match)

\* The pointers that are read never pass a terminating NUL, and are never the
\* NULL that m and c start as.  (Utils::strcmp)
PointersInside == w \in 1 .. Len(wild) + 1 /\ s \in 1 .. Len(string) + 1

\* The search ends although it steps back.
AnswerIsGiven == <>(phase = "done")
=============================================================================
