-------------------------- MODULE MCEditorSession --------------------------
(* EditorSession on a few requests.  The requests whose edit can be replayed *)
(* are interchangeable.                                                      *)
EXTENDS EditorSession, TLC

RequestSymmetry == Permutations(Requests \ BadEdits)
=============================================================================
