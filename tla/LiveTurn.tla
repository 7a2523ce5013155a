------------------------------ MODULE LiveTurn ------------------------------
(***************************************************************************)
(* The turns of one Gemini Live connection: core/plate_checker_ws.py,      *)
(* handle_gemini_responses beside handle_client_messages.                  *)
(*                                                                         *)
(* The model's text is a buffer of plates, parsed after every message and  *)
(* once more when the turn is complete; each parse may send a plate_result *)
(* and the last one a check_session_sync.  The user's words come back as a *)
(* cumulative transcript, searched for a plate from an anchor on.          *)
(* A step is the code between two awaits that may suspend.  The client's   *)
(* task runs between any two of them.                                      *)
(***************************************************************************)
EXTENDS Naturals, Sequences, FiniteSetsExt

CONSTANTS
  Plates,    \* normalised plates
  Columns,   \* plate columns of the workbook: a verdict is named by its column
  NoColumn,  \* excel_plate_column is empty
  NoBook,    \* excel_loaded is False
  Nothing,   \* no verdict was sent
  MaxWords,  \* bound on the words of a transcript
  MaxBuffer, \* bound on the plates of a turn
  Quirks     \* what the client and Gemini do besides talking in turns

ASSUME ConstantsAssumption ==
  /\ Nothing \notin Columns \cup {NoColumn, NoBook}
  /\ {NoColumn, NoBook} \cap Columns = {}
  /\ {MaxWords, MaxBuffer} \subseteq Nat
  /\ Quirks \subseteq {"column", "interrupt", "silent", "repeat", "restart"}

VARIABLES
  said,       \* the transcript at Gemini: TRUE for a plate, FALSE for another word
  turnStart,  \* how much of it belongs to earlier turns (history)
  transcript, \* the length of input_transcript
  anchor,     \* transcript_turn_anchor
  match,      \* the word of the last live_plate, 0 for none
  buffer,     \* the plates in text_buffer
  whole,      \* text_buffer parses
  keys,       \* model_plate_norm_keys
  column,     \* excel_plate_column
  pc,         \* where handle_gemini_responses stands
  todo,       \* what is left of its loop over plates
  shown,      \* the verdict of the last plate_result of a plate in this turn (history)
  sync,       \* sync_items
  calm        \* nothing of Quirks has happened yet (history)

speech == <<said, turnStart, transcript, anchor, match>>
text   == <<buffer, whole, keys, todo, shown, sync>>
vars   == <<speech, text, column, pc, calm>>

Silence == [p \in Plates |-> Nothing]

Init == /\ said = <<>> /\ turnStart = 0 /\ transcript = 0 /\ anchor = 0 /\ match = 0
        /\ buffer = <<>> /\ whole = FALSE /\ keys = {} /\ todo = <<>>
        /\ shown = Silence /\ sync = Silence
        /\ column \in Columns \cup {NoBook}
        /\ pc = "idle"
        /\ calm = TRUE

\* Something happens besides user and model talking in turns.
Disturb(q) == q \in Quirks /\ calm' = FALSE
-----------------------------------------------------------------------------
(* handle_client_messages.                                                 *)

\* excel_upload_ref: a new workbook, its column still to choose.
Upload ==
  /\ Disturb("column")
  /\ column' = NoColumn
  /\ anchor' = 0
  /\ keys'   = {}
  /\ UNCHANGED <<said, turnStart, transcript, match, buffer, whole, todo, shown, sync, pc>>

SetColumnChecked ==
  /\ Disturb("column")
  /\ column # NoBook
  /\ column' \in Columns
  /\ anchor' = 0
  /\ keys'   = {}
  /\ UNCHANGED <<said, turnStart, transcript, match, buffer, whole, todo, shown, sync, pc>>

\* Mutant: the plates already sent in this turn stay sent.
SetColumnKeepsKeys ==
  /\ Disturb("column")
  /\ column # NoBook
  /\ column' \in Columns
  /\ anchor' = 0
  /\ UNCHANGED <<said, turnStart, transcript, match, text, pc>>

SetColumn == SetColumnChecked

ClientTask == Upload \/ SetColumn
-----------------------------------------------------------------------------
(* handle_gemini_responses: the user's words.                              *)

\* The user spoke over the model.
Interrupt ==
  /\ Disturb("interrupt")
  /\ pc = "idle"
  /\ buffer' = <<>> /\ whole' = FALSE /\ transcript' = 0 /\ anchor' = 0 /\ keys' = {}
  /\ shown' = Silence
  /\ UNCHANGED <<said, turnStart, match, todo, sync, column, pc>>

\* An anchor beyond the end of the transcript goes back to its start.
Clamp(full) == IF anchor > Len(full) THEN 0 ELSE anchor

\* Mutant: it stays where it is.
ClampNot(full) == anchor

AnchorFor(full) == Clamp(full)

\* The transcript goes on with some words, comes again as it was, or begins anew.
Continued ==
  \E new \in {<<b>> : b \in BOOLEAN} \cup {<<b, c>> : b, c \in BOOLEAN} :
    said' = said \o new /\ UNCHANGED <<turnStart, calm>>
Repeated == Disturb("repeat") /\ said # <<>> /\ UNCHANGED <<said, turnStart>>
Restarted == Disturb("restart") /\ turnStart' = 0 /\ \E b \in BOOLEAN : said' = <<b>>

Transcribe ==
  /\ pc = "idle"
  /\ Continued \/ Repeated \/ Restarted
  /\ Len(said') <= MaxWords
  /\ transcript' = Len(said')
  /\ anchor' = AnchorFor(said')
  /\ pc' = "heard"
  /\ UNCHANGED <<match, text, column>>

\* The last plate of the transcript after its first "from" words, or 0.
Candidate(from) == Max({0} \cup {i \in from + 1 .. transcript : said[i]})

\* _segment_for_current_turn_transcript
SegmentStart == IF anchor >= transcript THEN 0 ELSE anchor

\* _maybe_live_sheet_check, after live_transcript was sent: it looks only with a column.
CheckSheet ==
  /\ pc = "heard"
  /\ IF column \in Columns
     THEN pc' = "checked" /\ match' = Candidate(SegmentStart)
     ELSE pc' = "text" /\ UNCHANGED match
  /\ UNCHANGED <<said, turnStart, transcript, anchor, text, column, calm>>
-----------------------------------------------------------------------------
(* handle_gemini_responses: the model's text.                              *)

\* _parse_plate_payload: all the plates, or none while the text is no JSON.
Parsed == IF whole THEN buffer ELSE <<>>

\* The text of the message, empty perhaps, is added to the buffer, which parses or not.
AppendText ==
  /\ pc \in {"idle", "text", "checked"}
  /\ \E chunk \in {<<>>} \cup {<<p>> : p \in Plates} :
       /\ Len(buffer \o chunk) <= MaxBuffer
       /\ buffer' = buffer \o chunk
       /\ IF chunk = <<>> THEN UNCHANGED whole ELSE whole' \in BOOLEAN
  /\ todo' = Parsed'
  /\ pc' = "partial"
  /\ UNCHANGED <<speech, keys, shown, sync, column, calm>>

\* _emit_model_plate_if_new: the verdict is looked up and sent once per key.
EmitIfNew(p) ==
  /\ keys'  = keys \cup {p}
  /\ shown' = IF p \in keys THEN shown ELSE [shown EXCEPT ![p] = column]

EmitPartial ==
  /\ pc = "partial"
  /\ todo # <<>>
  /\ EmitIfNew(Head(todo))
  /\ todo' = Tail(todo)
  /\ UNCHANGED <<speech, buffer, whole, sync, column, pc, calm>>

\* The message had no turnComplete.
NextMessage ==
  /\ pc = "partial"
  /\ todo = <<>>
  /\ pc' = "idle"
  /\ UNCHANGED <<speech, text, column, calm>>

\* turnComplete: _process_plate_text goes through the buffer again.
BeginFinal ==
  /\ pc = "partial"
  /\ todo = <<>>
  /\ IF transcript = 0 THEN Disturb("silent") ELSE UNCHANGED calm
  /\ todo' = Parsed
  /\ sync' = Silence
  /\ pc' = "final"
  /\ UNCHANGED <<speech, buffer, whole, keys, shown, column>>

EmitFinal ==
  /\ pc = "final"
  /\ todo # <<>>
  /\ sync' = [sync EXCEPT ![Head(todo)] = column]
  /\ EmitIfNew(Head(todo))
  /\ todo' = Tail(todo)
  /\ UNCHANGED <<speech, buffer, whole, column, pc, calm>>

\* check_session_sync is sent, unless nothing is in it.
SendSync ==
  /\ pc = "final"
  /\ todo = <<>>
  /\ pc' = "synced"
  /\ UNCHANGED <<speech, text, column, calm>>

\* The end of the turn after its last message but turn_complete.
ResetTurn ==
  /\ turnStart'  = Len(said)
  /\ transcript' = 0
  /\ buffer' = <<>> /\ whole' = FALSE
  /\ shown' = Silence
  /\ pc' = "idle"
  /\ UNCHANGED <<said, match, todo, sync, column, calm>>

EndTurnSliced ==
  /\ pc = "synced"
  /\ anchor' = transcript
  /\ keys' = {}
  /\ ResetTurn

\* Mutant: input_transcript is cleared before its length is taken.
EndTurnClearsFirst ==
  /\ pc = "synced"
  /\ anchor' = 0
  /\ keys' = {}
  /\ ResetTurn

EndTurn == EndTurnSliced

GeminiTask == \/ Interrupt \/ Transcribe \/ CheckSheet
              \/ AppendText \/ EmitPartial \/ NextMessage
              \/ BeginFinal \/ EmitFinal \/ SendSync \/ EndTurn

Next == ClientTask \/ GeminiTask

Spec == Init /\ [][Next]_vars
-----------------------------------------------------------------------------
(* Properties.                                                             *)

Verdicts == Columns \cup {NoColumn, NoBook, Nothing}

\* Every variable has its type; the anchor stays inside the transcript.
TypeOK ==
  /\ said \in Seq(BOOLEAN)
  /\ turnStart \in 0..Len(said)
  /\ transcript \in 0..Len(said)
  /\ anchor \in 0..Len(said)
  /\ match \in 0..MaxWords
  /\ buffer \in Seq(Plates)
  /\ whole \in BOOLEAN
  /\ keys \subseteq Plates
  /\ column \in Columns \cup {NoColumn, NoBook}
  /\ pc \in {"idle", "heard", "checked", "text", "partial", "final", "synced"}
  /\ todo \in Seq(Plates)
  /\ shown \in [Plates -> Verdicts]
  /\ sync \in [Plates -> Verdicts]
  /\ calm \in BOOLEAN

\* What check_session_sync says of a plate is what the client was told of it last, by a
\* plate_result of this turn: though plates are sent once only, no change of the workbook
\* between the first parse of a turn and its end leaves the two apart.
SyncAgrees ==
  pc = "synced" => \A p \in Plates : sync[p] # Nothing => sync[p] = shown[p]

\* The plate looked up while the user speaks is the last one of this turn's words, as
\* long as user and model take turns and the transcript only grows.
MatchOfTurn == calm /\ pc = "checked" => match = Candidate(turnStart)
=============================================================================
