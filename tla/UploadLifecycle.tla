---------------------------- MODULE UploadLifecycle ----------------------------
(* What the server promises of the states of upload sessions, whoever asks and  *)
(* whatever fails: the transition table of domain/uploads.py, and the two edges *)
(* beside it that only a verified publication and its catalogue entry take.     *)
(* The repositories write states with UPDATE statements of their own, so that   *)
(* they keep to this table is for UploadPipeline to show.                       *)

CONSTANT Sessions
VARIABLE state      \* session -> its state

Terminal == {"cataloged", "rejected", "cancelled", "expired", "failed"}

States ==
    {"created", "receiving", "received", "validating", "duplicate_pending",
     "publish_pending", "published"} \cup Terminal

\* Giving up, being late, being broken.
Ended == {"cancelled", "expired", "failed"}

\* ALLOWED_UPLOAD_SESSION_TRANSITIONS.
Allowed ==
    [from \in States |->
        CASE from = "created"           -> {"receiving"} \cup Ended
          [] from = "receiving"         -> {"received"} \cup Ended
          [] from = "received"          -> {"validating"} \cup Ended
          [] from = "validating"        ->
                {"duplicate_pending", "publish_pending", "rejected", "failed"}
          [] from = "duplicate_pending" -> {"publish_pending"} \cup Ended
          [] from = "publish_pending"   -> {"failed"}
          [] OTHER                      -> {}]

\* Where commit_verified_publication and commit_cataloged_publication go.
Committed(from) ==
    CASE from = "publish_pending" -> {"published"}
      [] from = "published"       -> {"cataloged"}
      [] OTHER                    -> {}

(* A session is watched from its creation, or from its first byte.              *)
Init == state \in [Sessions -> {"created", "receiving"}]

Move(s) ==
    \E to \in Allowed[state[s]] \cup Committed(state[s]) :
        state' = [state EXCEPT ![s] = to]

Next == \E s \in Sessions : Move(s)

Spec == Init /\ [][Next]_state

================================================================================
