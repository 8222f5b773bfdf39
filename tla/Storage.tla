------------------------------- MODULE Storage -------------------------------
(* Everything that puts objects into the one bucket and takes them out.     *)
EXTENDS Media, Images

vars == <<objects, rows, comment, shelf, notes, phase, asks, before,
          holders, picture, step, found>>

ASSUME KeysDiffer == Keys \cap Replaces = {}

TypeOK ==
    /\ MediaTypeOK /\ ImagesTypeOK
    /\ objects \subseteq Keys \cup Replaces

Init == MediaInit /\ ImagesInit /\ objects = {}

Next ==
    \/ MediaNext /\ UNCHANGED imagesVars
    \/ ImagesNext /\ UNCHANGED mediaVars

Spec == Init /\ [][Next]_vars

=============================================================================
