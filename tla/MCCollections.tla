---- MODULE MCCollections ----
(* Instances of Collections for TLC. *)
EXTENDS Collections, TLC

OneReminder == <<1>>
TwoReminders == <<-1, 1>>
TaskSymmetry == Permutations(Tasks)
====
