------------------------------ MODULE MCArrivals ------------------------------
(* Media on their way into the library: the lock registry, the transport of one *)
(* upload of two bytes with two requests, both acquisition pipelines, and the    *)
(* stop of the process while an upload is validated.  They share no state here,  *)
(* so a behaviour works one of them while the others rest in an initial state.   *)
(*                                                                               *)
(* In the registry three coroutines lease the locks of two sessions: two can     *)
(* queue behind a holder while the third leases another session, and entry       *)
(* objects are reused after removal.                                             *)
EXTENDS UploadTransport, UploadSessionLock, YouTubeAcquisition, XAcquisition, Shutdown

CONSTANTS s1

VARIABLE works   \* the one that works in this behaviour

\* Whom an idle coroutine leased last makes no difference.  Of the claims for posts:
\* one with two faults, or two with one fault.
MCInit == /\ works \in {"lock", "transport", "youtube", "one post", "two posts", "stop"}
          /\ LockInit /\ \A c \in Coroutines : session[c] = s1
          /\ Init /\ YouTubeInit /\ XInit
          /\ ShutdownInit /\ (works # "stop" => content = "good")

Lock(step) == works = "lock" /\ step /\ UNCHANGED <<vars, youtubeVars, xVars, shutdownVars, works>>
Transport(step) == works = "transport" /\ step /\ UNCHANGED <<lockVars, youtubeVars, xVars, shutdownVars, works>>
YouTube(step) == works = "youtube" /\ step /\ UNCHANGED <<lockVars, vars, xVars, shutdownVars, works>>
PostStep(step) == /\ works \in {"one post", "two posts"} /\ step
                  /\ UNCHANGED <<lockVars, vars, youtubeVars, shutdownVars, works>>
Stopping(step) == works = "stop" /\ step /\ UNCHANGED <<lockVars, vars, youtubeVars, xVars, works>>

MCNext ==
    \/ Lock(LockNext)
    \/ Transport(Next)
    \/ YouTube(YouTubeNext)
    \/ works = "one post" /\ PostStep(XNext) /\ postClaim'[2] = postClaim[2]
    \/ works = "two posts" /\ PostStep(XNext) /\ troubles' <= 1
    \/ Stopping(ShutdownNext)

\* The fairness that each module states, of the one that works: `works` never changes,
\* so the actions of several modules share a condition.
all == <<lockVars, vars, youtubeVars, xVars, shutdownVars, works>>
MCFairness ==
    /\ WF_all(\/ Transport(\E r \in Requests : Serve(r))
              \/ YouTube(\E c \in Claims : Drain(c))
              \/ PostStep(Process(1))
              \/ Stopping(Ending))
    /\ SF_all(Transport(\E r \in Requests : Resume(r)))
    /\ SF_all(Transport(\E r \in Requests : Grant(r)))
    /\ WF_all(\/ YouTube(\E c \in Claims : Validate(c) \/ Catalog(c))
              \/ PostStep(Progress(1, 1))
              \/ Stopping(DeadlinePasses))
    /\ WF_all(PostStep(Progress(1, 2)))
    /\ WF_all(PostStep(Process(2)))
    /\ WF_all(PostStep(Progress(2, 1)))
    /\ WF_all(PostStep(Progress(2, 2)))

MCSpec == MCInit /\ [][MCNext]_all /\ MCFairness

(* Of both acquisitions: a submitted claim ends, whatever breaks on the way.     *)
EveryAcquisitionEnds == EveryClaimEnds /\ EveryPostEnds
===============================================================================
