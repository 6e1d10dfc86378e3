---------------------------- MODULE EditorBuffer ----------------------------
(***************************************************************************)
(* One open file in the editor (client/ui/lib/editor/buffers.svelte.ts):   *)
(* its text, the content its next save is conditional on, whether it has   *)
(* changes nobody saved, and how its last save ended. A digest is modelled *)
(* by the content it is of. These are the buffer's operations; when they   *)
(* are called is OfflineEditing's.                                         *)
(***************************************************************************)

\* How a save ended. "other" is refused or unreachable.
Endings == {"none", "written", "held", "conflict", "other"}

Buffers(Contents, Bases) ==
  [text : Contents, base : Bases, dirty : BOOLEAN, ending : Endings]

\* fill: what was read, and nothing unsaved.
Filled(text, base) ==
  [text |-> text, base |-> base, dirty |-> FALSE, ending |-> "none"]

\* applyEdit, with one more piece of text.
Typed(b, piece) == [b EXCEPT !.text = @ \union {piece}, !.dirty = TRUE]

\* adopt: the host has it, and what it has is the new base.
Adopted(b, base) == [b EXCEPT !.base = base, !.dirty = FALSE, !.ending = "written"]

\* held: this machine has it; the host still has the old base.
Held(b) == [b EXCEPT !.dirty = FALSE, !.ending = "held"]

\* failed: the text is still unsaved.
Failed(b, outcome) == [b EXCEPT !.dirty = TRUE, !.ending = outcome]

\* save, when its outcome arrives.
SaveEnded(b, outcome, saved) ==
  CASE outcome = "written" -> Adopted(b, saved)
    [] outcome = "held"    -> Held(b)
    [] OTHER               -> Failed(b, outcome)
=============================================================================
