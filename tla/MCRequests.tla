----------------------------- MODULE MCRequests -----------------------------
(* The parts of the server that live for a request or a session: accounts, *)
(* one-time tokens, temporary check sessions and the comparison of two     *)
(* workbooks.  They share no state, so a behaviour exercises one of them.  *)
EXTENDS Accounts, OneTimeTokens, TempSession, PlateMatch

\* Two plates of the same letters in the other order, each spelled in several ways, and words
\* that are no plates; and a plate of letters that are on no Saudi plate.  Latin letters alone
\* are written in the order of reading, from the left; what they mean, from the right.
First  == <<"alef", "seen">>
Second == <<"seen", "alef">>
Abroad == <<"O", "P">>
One    == <<"1">>
Number == <<"1", "2">>
Long   == <<"alef", "seen", "alef", "seen", "1">>

TwoRows ==
    { << Plate(Abroad, One, <<"P", "O", "1">>), Plate(Second, One, <<"A", "S", "1">>) >>,
      << Word(Long, <<"alef", "space", "seen", "alef", "seen", "1">>),
         Plate(First, One, <<"indic1", "space", "alefHamza", "tatweel", "seen">>) >> }

FourRows ==
    { << Plate(First, One, <<"1", "S", "A">>), NoText >>,
      << Plate(Second, One, <<"A", "S", "-", "1">>),
         Plate(First, One, <<"alef", "-", "seen", "-", "1">>) >>,
      << Plate(Abroad, One, <<"1", "P", "-", "O">>),
         Word(<<"alef", "1", "-", "S", "A", "S">>, <<"alef", "space", "1", "-", "S", "A", "S">>) >>,
      << Word(Long, <<"alef", "seen", "alefHamza", "seen", "space", "1">>), Word(Number, Number) >> }

HeaderRows == { << >>, <<"plate">>, <<"note", "code">> }

VARIABLE part

Parts == {"accounts", "tokens", "temp", "match"}

Quiet(other) ==
    \/ part = other
    \/ /\ other = "accounts" /\ row = Fresh /\ usage = {}
    \/ /\ other = "tokens" /\ ~configured /\ running = Procs
    \/ /\ other = "temp" /\ ~bypass
    \/ other = "match"

RequestsInit ==
    /\ Init /\ TokensInit /\ TempInit /\ MatchInit
    /\ part \in Parts
    /\ \A other \in Parts : Quiet(other)

RequestsNext ==
    \/ part = "accounts" /\ Next       /\ UNCHANGED <<part, tokenVars, tempVars, matchVars>>
    \/ part = "tokens"   /\ TokensNext /\ UNCHANGED <<part, vars, tempVars, matchVars>>
    \/ part = "temp"     /\ TempNext   /\ UNCHANGED <<part, vars, tokenVars, matchVars>>
    \/ part = "match"    /\ MatchNext  /\ UNCHANGED <<part, vars, tokenVars, tempVars>>

RequestsSpec == RequestsInit /\ [][RequestsNext]_<<part, vars, tokenVars, tempVars, matchVars>>

\* The type invariants of the parts that keep state.
RequestsTypeOK == TypeOK /\ TokensTypeOK /\ TempTypeOK

Symmetry == Permutations(Requests) \cup Permutations(Devices) \cup Permutations(TempRequests)
=============================================================================
