--------------------------- MODULE MCNotification ---------------------------
(* Small instances of Notification.                                        *)
EXTENDS Notification, TLC

\* The threads that serve requests are interchangeable.
RequestSymmetry == Permutations(Request)
============================================================================
