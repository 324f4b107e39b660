---------------------------- MODULE MCNoteSelection ----------------------------
(* An instance of NoteSelection for TLC: the configuration gives the bounds. *)
EXTENDS NoteSelection
=============================================================================
