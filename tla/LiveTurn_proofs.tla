-------------------------- MODULE LiveTurn_proofs ---------------------------
(***************************************************************************)
(* What a turn tells the client, for every set of plates and of columns    *)
(* and turns of any length.                                                *)
(***************************************************************************)
EXTENDS LiveTurn, WellFoundedInduction, TLAPS

-----------------------------------------------------------------------------
(* The final list against the results sent before it.                      *)

\* The part of the types the argument needs.
TextOK == /\ buffer \in Seq(Plates)
          /\ todo \in Seq(Plates)
          /\ keys \subseteq Plates
          /\ column \in Columns \cup {NoColumn, NoBook}
          /\ shown \in [Plates -> Verdicts]
          /\ sync \in [Plates -> Verdicts]

\* A plate that will not be sent again was sent with the column in force; what the final
\* list says of a plate is what was sent last.
SyncInv == /\ TextOK
           /\ \A p \in keys : shown[p] = column
           /\ pc \in {"final", "synced"} =>
                \A p \in Plates : sync[p] # Nothing => sync[p] = shown[p]

LEMMA SyncInit == Init => SyncInv
  BY DEF Init, SyncInv, TextOK, Silence, Verdicts

\* _emit_model_plate_if_new leaves the keys right, and a plate it does not send as it was.
LEMMA EmitRight ==
  ASSUME SyncInv, NEW p \in Plates, EmitIfNew(p), UNCHANGED column
  PROVE  /\ keys' \subseteq Plates
         /\ shown' \in [Plates -> Verdicts]
         /\ \A k \in keys' : shown'[k] = column'
         /\ shown'[p] = column
         /\ \A k \in Plates \ {p} : shown'[k] = shown[k]
  <1>1. CASE p \in keys
    BY <1>1 DEF SyncInv, TextOK, EmitIfNew
  <1>2. CASE p \notin keys
    <2>1. shown' = [shown EXCEPT ![p] = column] /\ keys' = keys \cup {p}
      BY <1>2 DEF EmitIfNew
    <2>2. column \in Verdicts
      BY DEF SyncInv, TextOK, Verdicts
    <2>3. QED
      BY <2>1, <2>2 DEF SyncInv, TextOK
  <1>3. QED
    BY <1>1, <1>2

LEMMA SyncStep == SyncInv /\ [Next]_vars => SyncInv'
  <1> SUFFICES ASSUME SyncInv, [Next]_vars
               PROVE  SyncInv'
    OBVIOUS
  <1> USE DEF SyncInv, TextOK
  <1>1. CASE Upload
    BY <1>1 DEF Upload
  <1>2. CASE SetColumn
    BY <1>2 DEF SetColumn, SetColumnChecked
  <1>3. CASE Interrupt
    BY <1>3 DEF Interrupt, Silence, Verdicts
  <1>4. CASE Transcribe
    BY <1>4 DEF Transcribe, text
  <1>5. CASE CheckSheet
    BY <1>5 DEF CheckSheet, text
  <1>6. CASE AppendText
    <2>1. /\ UNCHANGED <<keys, shown, sync, column>>
          /\ pc' = "partial"
          /\ todo' = Parsed'
      BY <1>6 DEF AppendText
    <2>2. PICK chunk \in {<<>>} \cup {<<p>> : p \in Plates} : buffer' = buffer \o chunk
      BY <1>6 DEF AppendText
    <2>3. chunk \in Seq(Plates)
      <3>1. CASE chunk = <<>>
        BY <3>1
      <3>2. ASSUME NEW p \in Plates, chunk = <<p>>
            PROVE  chunk \in Seq(Plates)
        BY <3>2
      <3>3. QED
        BY <2>2, <3>1, <3>2
    <2>4. buffer' \in Seq(Plates)
      BY <2>2, <2>3
    <2>5. todo' \in Seq(Plates)
      BY <2>1, <2>4 DEF Parsed
    <2>6. QED
      BY <2>1, <2>4, <2>5
  <1>7. CASE EmitPartial
    <2>1. /\ Head(todo) \in Plates /\ Tail(todo) \in Seq(Plates)
          /\ EmitIfNew(Head(todo))
          /\ todo' = Tail(todo) /\ pc' = "partial"
          /\ UNCHANGED <<buffer, sync, column>>
      BY <1>7 DEF EmitPartial
    <2>2. QED
      BY <2>1, EmitRight
  <1>8. CASE NextMessage
    BY <1>8 DEF NextMessage, text
  <1>9. CASE BeginFinal
    <2>1. /\ todo' = (IF whole THEN buffer ELSE <<>>)
          /\ sync' = Silence
          /\ UNCHANGED <<buffer, keys, shown, column>>
      BY <1>9 DEF BeginFinal, Parsed
    <2>2. QED
      BY <2>1 DEF Silence, Verdicts
  <1>10. CASE EmitFinal
    <2>1. /\ Head(todo) \in Plates /\ Tail(todo) \in Seq(Plates)
          /\ EmitIfNew(Head(todo))
          /\ sync' = [sync EXCEPT ![Head(todo)] = column]
          /\ todo' = Tail(todo) /\ pc = "final"
          /\ UNCHANGED <<buffer, column, pc>>
      BY <1>10 DEF EmitFinal
    <2>2. column \in Verdicts
      BY DEF Verdicts
    <2>3. /\ shown'[Head(todo)] = column
          /\ \A k \in Plates \ {Head(todo)} : shown'[k] = shown[k]
          /\ keys' \subseteq Plates
          /\ shown' \in [Plates -> Verdicts]
          /\ \A k \in keys' : shown'[k] = column'
      BY <2>1, EmitRight
    <2>4. ASSUME NEW p \in Plates, sync'[p] # Nothing
          PROVE  sync'[p] = shown'[p]
      BY <2>1, <2>3, <2>4
    <2>5. QED
      BY <2>1, <2>2, <2>3, <2>4
  <1>11. CASE SendSync
    BY <1>11 DEF SendSync, text
  <1>12. CASE EndTurn
    BY <1>12 DEF EndTurn, EndTurnSliced, ResetTurn, Silence, Verdicts
  <1>13. CASE UNCHANGED vars
    BY <1>13 DEF vars, text
  <1>14. QED
    BY <1>1, <1>2, <1>3, <1>4, <1>5, <1>6, <1>7, <1>8, <1>9, <1>10, <1>11, <1>12, <1>13
       DEF Next, ClientTask, GeminiTask

\* check_session_sync never contradicts the plate_result the client saw last, whatever
\* the client does to the workbook meanwhile.
THEOREM SyncNeverContradicts == Spec => []SyncAgrees
  <1>1. SyncInv => SyncAgrees
    BY DEF SyncInv, SyncAgrees
  <1>2. QED
    BY SyncInit, SyncStep, <1>1, PTL DEF Spec

-----------------------------------------------------------------------------
(* The plate looked up while the user speaks.                              *)

\* While client and Gemini only talked in turns, the anchor is where the turn began and
\* the transcript, once there is one in the turn, reaches beyond it.
InTurns == /\ anchor = turnStart
           /\ turnStart <= Len(said)
           /\ transcript \in {0, Len(said)}
           /\ pc = "heard" => transcript > turnStart
           /\ pc \in {"final", "synced"} => transcript # 0

WordsInv == /\ said \in Seq(BOOLEAN)
            /\ turnStart \in Nat
            /\ calm \in BOOLEAN
            /\ calm => InTurns
            /\ MatchOfTurn

LEMMA WordsInit == Init => WordsInv
  BY DEF Init, WordsInv, InTurns, MatchOfTurn

\* Whatever disturbs the turns leaves nothing to show.
LEMMA Disturbed ==
  ASSUME said' \in Seq(BOOLEAN), turnStart' \in Nat, calm' = FALSE
  PROVE  WordsInv'
  BY DEF WordsInv, MatchOfTurn

\* A transcript that grew within an undisturbed turn.
LEMMA TranscribeWords ==
  ASSUME WordsInv, Transcribe
  PROVE  WordsInv'
  <1> USE DEF WordsInv
  <1>1. /\ pc' = "heard" /\ transcript' = Len(said')
        /\ anchor' = IF anchor > Len(said') THEN 0 ELSE anchor
        /\ Continued \/ Repeated \/ Restarted
    BY DEF Transcribe, AnchorFor, Clamp
  <1>2. CASE Repeated
    BY <1>2, Disturbed DEF Repeated, Disturb
  <1>3. CASE Restarted
    <2>1. PICK b \in BOOLEAN : said' = <<b>>
      BY <1>3 DEF Restarted
    <2>2. said' \in Seq(BOOLEAN)
      BY <2>1
    <2>3. QED
      BY <1>3, <2>2, Disturbed DEF Restarted, Disturb
  <1>4. CASE Continued
    <2>1. PICK new \in {<<b>> : b \in BOOLEAN} \cup {<<b, c>> : b, c \in BOOLEAN} :
            said' = said \o new /\ UNCHANGED <<turnStart, calm>>
      BY <1>4 DEF Continued
    <2>2. new \in Seq(BOOLEAN) /\ Len(new) >= 1
      <3>1. ASSUME NEW b \in BOOLEAN, new = <<b>>
            PROVE  new \in Seq(BOOLEAN) /\ Len(new) >= 1
        BY <3>1
      <3>2. ASSUME NEW b \in BOOLEAN, NEW c \in BOOLEAN, new = <<b, c>>
            PROVE  new \in Seq(BOOLEAN) /\ Len(new) >= 1
        BY <3>2
      <3>3. QED
        BY <2>1, <3>1, <3>2
    <2>3. said' \in Seq(BOOLEAN) /\ Len(said') >= Len(said) + 1
      BY <2>1, <2>2
    <2>4. calm' => InTurns'
      <3>1. SUFFICES ASSUME calm' PROVE InTurns'
        OBVIOUS
      <3>2. InTurns
        BY <2>1, <3>1
      <3>3. anchor' = anchor
        BY <1>1, <2>3, <3>2 DEF InTurns
      <3>4. QED
        BY <1>1, <2>1, <2>3, <3>2, <3>3 DEF InTurns
    <2>5. QED
      BY <1>1, <2>1, <2>3, <2>4 DEF MatchOfTurn
  <1>5. QED
    BY <1>1, <1>2, <1>3, <1>4

LEMMA CheckSheetWords ==
  ASSUME WordsInv, CheckSheet
  PROVE  WordsInv'
  <1> USE DEF WordsInv
  <1>1. /\ pc = "heard"
        /\ UNCHANGED <<said, turnStart, transcript, anchor, calm>>
        /\ pc' = "checked" => match' = Candidate(SegmentStart)
        /\ pc' \in {"checked", "text"}
    BY DEF CheckSheet
  <1>2. calm => SegmentStart = turnStart
    BY <1>1 DEF SegmentStart, InTurns
  <1>3. Candidate(turnStart)' = Candidate(turnStart)
    BY <1>1 DEF Candidate
  <1>4. calm' => InTurns'
    BY <1>1 DEF InTurns
  <1>5. MatchOfTurn'
    BY <1>1, <1>2, <1>3 DEF MatchOfTurn
  <1>6. QED
    BY <1>1, <1>4, <1>5

LEMMA WordsStep == WordsInv /\ [Next]_vars => WordsInv'
  <1> SUFFICES ASSUME WordsInv, [Next]_vars
               PROVE  WordsInv'
    OBVIOUS
  <1> USE DEF WordsInv
  <1>1. CASE ClientTask \/ Interrupt
    BY <1>1, Disturbed DEF ClientTask, Upload, SetColumn, SetColumnChecked, Interrupt, Disturb
  <1>2. CASE Transcribe
    BY <1>2, TranscribeWords
  <1>3. CASE CheckSheet
    BY <1>3, CheckSheetWords
  <1>4. CASE AppendText \/ EmitPartial \/ NextMessage \/ EmitFinal \/ SendSync
    <2>1. UNCHANGED <<said, turnStart, transcript, anchor, calm>>
      BY <1>4 DEF AppendText, EmitPartial, NextMessage, EmitFinal, SendSync, speech
    <2>2. pc' \in {"idle", "partial", "final", "synced"}
      BY <1>4 DEF AppendText, EmitPartial, NextMessage, EmitFinal, SendSync
    <2>3. pc' = "final" => pc = "final"
      BY <1>4 DEF AppendText, EmitPartial, NextMessage, EmitFinal, SendSync
    <2>4. pc' = "synced" => pc = "final"
      BY <1>4 DEF AppendText, EmitPartial, NextMessage, EmitFinal, SendSync
    <2>5. MatchOfTurn'
      BY <2>2 DEF MatchOfTurn
    <2>6. InTurns => InTurns'
      BY <2>1, <2>2, <2>3, <2>4 DEF InTurns
    <2>7. QED
      BY <2>1, <2>5, <2>6
  <1>5. CASE BeginFinal
    <2>1. /\ pc' = "final"
          /\ UNCHANGED <<said, turnStart, transcript, anchor>>
      BY <1>5 DEF BeginFinal, speech
    <2>2. CASE transcript = 0
      <3>1. calm' = FALSE
        BY <1>5, <2>2 DEF BeginFinal, Disturb
      <3>2. QED
        BY <2>1, <3>1 DEF MatchOfTurn
    <2>3. CASE transcript # 0
      <3>1. calm' = calm
        BY <1>5, <2>3 DEF BeginFinal
      <3>2. MatchOfTurn'
        BY <2>1 DEF MatchOfTurn
      <3>3. InTurns => InTurns'
        BY <2>1, <2>3 DEF InTurns
      <3>4. QED
        BY <2>1, <3>1, <3>2, <3>3
    <2>4. QED
      BY <2>2, <2>3
  <1>6. CASE EndTurn
    <2>1. /\ pc = "synced" /\ pc' = "idle"
          /\ anchor' = transcript /\ turnStart' = Len(said) /\ transcript' = 0
          /\ UNCHANGED <<said, calm>>
      BY <1>6 DEF EndTurn, EndTurnSliced, ResetTurn
    <2>2. QED
      BY <2>1 DEF MatchOfTurn, InTurns
  <1>7. CASE UNCHANGED vars
    <2>1. Candidate(turnStart)' = Candidate(turnStart)
      BY <1>7 DEF vars, speech, Candidate
    <2>2. QED
      BY <1>7, <2>1 DEF vars, speech, MatchOfTurn, InTurns
  <1>8. QED
    BY <1>1, <1>2, <1>3, <1>4, <1>5, <1>6, <1>7 DEF Next, GeminiTask

\* As long as turns and transcripts alternate as the source expects, the plate looked up
\* is the last one the user said in this turn, however long the conversation.
THEOREM TurnsAreSliced == Spec => []MatchOfTurn
  <1>1. WordsInv => MatchOfTurn
    BY DEF WordsInv
  <1>2. QED
    BY WordsInit, WordsStep, <1>1, PTL DEF Spec

-----------------------------------------------------------------------------
(* The types.                                                              *)

\* A set of numbers up to a bound has a greatest.
LEMMA MaxOfBounded ==
  ASSUME NEW n \in Nat, NEW S \in SUBSET (0..n), S # {}
  PROVE  Max(S) \in S /\ \A y \in S : y <= Max(S)
  <1> DEFINE R == OpToRel(<, Nat)
             T == {n - x : x \in S}
  <1>1. T \subseteq Nat /\ T # {}
    <2>1. \A x \in S : n - x \in Nat
      OBVIOUS
    <2>2. QED
      BY <2>1
  <1>2. IsWellFoundedOn(R, Nat)
    BY NatLessThanWellFounded
  <1>3. \A a, b \in Nat : <<a, b>> \in R <=> a < b
    BY DEF OpToRel
  <1>4. PICK t \in T : \A u \in T : ~ (<<u, t>> \in R)
    <2> HIDE DEF R, T
    <2>1. QED
      BY <1>1, <1>2, WFMin
  <1>5. PICK x \in S : t = n - x
    OBVIOUS
  <1>6. \A y \in S : y <= x
    <2>1. ASSUME NEW y \in S, x < y PROVE FALSE
      <3>1. n - y \in T /\ n - y \in Nat /\ t \in Nat /\ n - y < t
        BY <1>5, <2>1
      <3>2. QED
        BY <1>3, <1>4, <3>1
    <2>2. QED
      BY <2>1
  <1>7. QED
    BY <1>6 DEF Max

\* The plate looked up is a word of the transcript, or none.
LEMMA CandidateType ==
  ASSUME transcript \in Nat, NEW from \in Nat
  PROVE  Candidate(from) \in 0..transcript
  <1> DEFINE S == {0} \cup {i \in from + 1 .. transcript : said[i]}
  <1>1. S \in SUBSET (0..transcript) /\ S # {}
    OBVIOUS
  <1>2. Max(S) \in S
    BY <1>1, MaxOfBounded
  <1>3. QED
    BY <1>1, <1>2 DEF Candidate

\* The transcript is bounded, and what refers to it stays inside.
SpeechOK == /\ said \in Seq(BOOLEAN) /\ Len(said) <= MaxWords
            /\ turnStart \in 0..Len(said)
            /\ transcript \in 0..Len(said)
            /\ anchor \in 0..Len(said)
            /\ match \in 0..MaxWords
            /\ whole \in BOOLEAN
            /\ pc \in {"idle", "heard", "checked", "text", "partial", "final", "synced"}

LEMMA SpeechInit == Init => SpeechOK
  <1>1. MaxWords \in Nat /\ <<>> \in Seq(BOOLEAN) /\ Len(<<>>) = 0
    BY ConstantsAssumption
  <1> SUFFICES ASSUME Init PROVE SpeechOK
    OBVIOUS
  <1>2. whole \in BOOLEAN /\ pc = "idle"
    BY DEF Init
  <1>3. said = <<>> /\ turnStart = 0 /\ transcript = 0 /\ anchor = 0 /\ match = 0
    BY DEF Init
  <1>4. QED
    BY <1>1, <1>2, <1>3 DEF SpeechOK

LEMMA TranscribeSpeech == ASSUME SpeechOK, Transcribe PROVE SpeechOK'
  <1> USE DEF SpeechOK
  <1>1. /\ pc' = "heard" /\ transcript' = Len(said') /\ Len(said') <= MaxWords
        /\ anchor' = IF anchor > Len(said') THEN 0 ELSE anchor
        /\ UNCHANGED <<match, whole>>
        /\ Continued \/ Repeated \/ Restarted
    BY DEF Transcribe, AnchorFor, Clamp, text
  <1>2. said' \in Seq(BOOLEAN) /\ turnStart' \in 0..Len(said')
    <2>1. CASE Repeated
      BY <2>1 DEF Repeated
    <2>2. CASE Restarted
      <3>1. PICK b \in BOOLEAN : said' = <<b>> /\ turnStart' = 0
        BY <2>2 DEF Restarted
      <3>2. QED
        BY <3>1
    <2>3. CASE Continued
      <3>1. PICK new \in {<<b>> : b \in BOOLEAN} \cup {<<b, c>> : b, c \in BOOLEAN} :
              said' = said \o new /\ turnStart' = turnStart
        BY <2>3 DEF Continued
      <3>2. new \in Seq(BOOLEAN)
        <4>1. ASSUME NEW b \in BOOLEAN, new = <<b>> PROVE new \in Seq(BOOLEAN)
          BY <4>1
        <4>2. ASSUME NEW b \in BOOLEAN, NEW c \in BOOLEAN, new = <<b, c>>
              PROVE  new \in Seq(BOOLEAN)
          BY <4>2
        <4>3. QED
          BY <3>1, <4>1, <4>2
      <3>3. QED
        BY <3>1, <3>2
    <2>4. QED
      BY <1>1, <2>1, <2>2, <2>3
  <1>3. QED
    BY <1>1, <1>2

LEMMA SpeechStep == SpeechOK /\ [Next]_vars => SpeechOK'
  <1> SUFFICES ASSUME SpeechOK, [Next]_vars PROVE SpeechOK'
    OBVIOUS
  <1> USE DEF SpeechOK
  <1>0. Len(said) \in Nat
    OBVIOUS
  <1>1. CASE ClientTask \/ Interrupt
    <2>1. /\ said' = said /\ turnStart' = turnStart /\ match' = match
          /\ transcript' \in {0, transcript} /\ anchor' = 0
          /\ pc' = pc
      BY <1>1 DEF ClientTask, Upload, SetColumn, SetColumnChecked, Interrupt
    <2>2. whole' \in BOOLEAN
      BY <1>1 DEF ClientTask, Upload, SetColumn, SetColumnChecked, Interrupt
    <2>3. QED
      BY <1>0, <2>1, <2>2
  <1>2. CASE Transcribe
    BY <1>2, TranscribeSpeech
  <1>3. CASE CheckSheet
    <2>1. /\ pc' \in {"checked", "text"} /\ match' \in {match, Candidate(SegmentStart)}
          /\ UNCHANGED <<said, turnStart, transcript, anchor, whole>>
      BY <1>3 DEF CheckSheet, text
    <2>2. Candidate(SegmentStart) \in 0..transcript
      <3>1. SegmentStart \in Nat /\ transcript \in Nat
        BY <1>0 DEF SegmentStart
      <3>2. QED
        BY <3>1, CandidateType
    <2>3. QED
      BY <2>1, <2>2, ConstantsAssumption
  <1>4. CASE AppendText \/ EmitPartial \/ NextMessage \/ BeginFinal \/ EmitFinal \/ SendSync
    BY <1>4 DEF AppendText, EmitPartial, NextMessage, BeginFinal, EmitFinal, SendSync, speech, text
  <1>5. CASE EndTurn
    <2>1. /\ said' = said /\ turnStart' = Len(said) /\ match' = match
          /\ transcript' = 0 /\ anchor' = transcript /\ pc' = "idle"
      BY <1>5 DEF EndTurn, EndTurnSliced, ResetTurn
    <2>2. whole' \in BOOLEAN
      BY <1>5 DEF EndTurn, EndTurnSliced, ResetTurn
    <2>3. QED
      BY <1>0, <2>1, <2>2
  <1>6. CASE UNCHANGED vars
    BY <1>6 DEF vars, speech, text
  <1>7. QED
    BY <1>1, <1>2, <1>3, <1>4, <1>5, <1>6 DEF Next, GeminiTask

\* The variables keep their types: whatever interrupts, restarts or changes the workbook, the
\* anchor stays inside the transcript and the plate looked up is one of its words.
THEOREM TurnTypeCorrect == Spec => []TypeOK
  <1>1. SpeechOK /\ SyncInv /\ WordsInv => TypeOK
    BY DEF SpeechOK, SyncInv, TextOK, WordsInv, TypeOK
  <1>2. QED
    BY SpeechInit, SpeechStep, SyncInit, SyncStep, WordsInit, WordsStep, <1>1, PTL DEF Spec
=============================================================================
