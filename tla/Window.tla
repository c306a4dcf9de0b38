------------------------------- MODULE Window -------------------------------
(***************************************************************************)
(* S's window onto the live frame, composed with the frame's way back.     *)
(*                                                                         *)
(* A thread of its own waits for the first live frame and opens a window   *)
(* on it; the compositor's frame callbacks then pull the next ones, each   *)
(* redraw asking for the callback after it.  It only ever tries the live   *)
(* frame's lock, so a look may come back with nothing while the progress   *)
(* thread folds.  The window outlives the session; if the thread never saw *)
(* a frame, the main thread presents once the session is over: the live    *)
(* frame if there is one by then, else the copy of the readback buffer     *)
(* that it took when the blob was created.                                 *)
(*                                                                         *)
(* The compositor and the user are external.  The window takes wl_shm      *)
(* always (a frame made of shipped bytes cannot be exported), so neither   *)
(* the dmabuf probe nor its path is here.                                  *)
(***************************************************************************)
EXTENDS Readback

VARIABLES
    mpc,        \* the main thread: "serve", "refresh", "join", "show",
                \* "present", and "exited", with the process
    candidate,  \* FrameCapture's copy of the readback buffer
    wpc,        \* the window thread: "first", "check", "present", "done"
    presented,  \* the window thread got a frame
    over,       \* session_over
    win,        \* the window: "none", "opened", "up", "closed"
    image,      \* the frame it holds, on screen once it is up
    callback    \* the compositor owes it a frame callback

windowVars == <<mpc, candidate, wpc, presented, over, win, image, callback>>
allVars == <<vars, windowVars>>

\* LiveFrame.written: frames count from 1, so a run that landed shows.
Written == live # Blank

\* The progress thread may be holding the live frame's lock.
Folding == ppc = "diff"

-----------------------------------------------------------------------------
(* The window itself, on whichever thread called present_frame_live.       *)

\* Connect, bind the globals, commit a surface with no buffer yet; with no
\* compositor to be had the call returns at once with an error.
Open(frameToShow) ==
    /\ win' \in {"opened", "closed"}
    /\ image' = frameToShow

\* The first configure draws; a draw that fails ends the loop.
Configure ==
    /\ win = "opened"
    /\ \/ win' = "up" /\ callback' = TRUE
       \/ win' = "closed" /\ UNCHANGED callback
    /\ UNCHANGED <<vars, mpc, candidate, wpc, presented, over, image>>

\* What `refresh` may return: the live frame, or nothing.
Refreshes == (IF Written THEN {live} ELSE {})
                \cup (IF Folding \/ ~Written THEN {Blank} ELSE {})

\* Mutant: a callback that finds nothing new is not worth a redraw.
RedrawIfNew(next) ==
    /\ image' = IF next = Blank THEN image ELSE next
    /\ callback' = (next # Blank)
    /\ UNCHANGED win

\* Nothing new leaves the frame up, and the draw asks for the next callback
\* all the same.
Redraw(next) ==
    /\ image' = IF next = Blank THEN image ELSE next
    /\ \/ UNCHANGED <<win, callback>>
       \/ win' = "closed" /\ callback' = FALSE

FrameCallback ==
    /\ win = "up"
    /\ callback
    /\ \E next \in Refreshes : Redraw(next)
    /\ UNCHANGED <<vars, mpc, candidate, wpc, presented, over>>

\* The close button, or a protocol error.
Close ==
    /\ win \in {"opened", "up"}
    /\ win' = "closed"
    /\ callback' = FALSE
    /\ UNCHANGED <<vars, mpc, candidate, wpc, presented, over, image>>

-----------------------------------------------------------------------------
(* The window thread.                                                      *)

FindFrame ==
    /\ wpc = "first"
    /\ Written
    /\ presented' = TRUE
    /\ Open(live)
    /\ wpc' = "present"
    /\ UNCHANGED <<vars, mpc, candidate, over, callback>>

FindNothing ==
    /\ wpc = "first"
    /\ Folding \/ ~Written
    /\ wpc' = "check"
    /\ UNCHANGED <<vars, mpc, candidate, presented, over, win, image, callback>>

CheckOver ==
    /\ wpc = "check"
    /\ wpc' = IF over THEN "done" ELSE "first"
    /\ UNCHANGED <<vars, mpc, candidate, presented, over, win, image, callback>>

WindowReturns ==
    /\ wpc = "present"
    /\ win = "closed"
    /\ wpc' = "done"
    /\ UNCHANGED <<vars, mpc, candidate, presented, over, win, image, callback>>

WindowThread == FindFrame \/ FindNothing \/ CheckOver \/ WindowReturns

-----------------------------------------------------------------------------
(* The main thread.                                                        *)

\* The application and C may go at any time: `serve` reads the link's end, or
\* fails to answer, and then the process ends at once.
ServeEnds ==
    /\ mpc = "serve"
    /\ mpc' \in {"refresh", "exited"}
    /\ UNCHANGED <<vars, candidate, wpc, presented, over, win, image, callback>>

\* refresh_candidates reads the blob again, if the application has not freed it.
RefreshCandidates ==
    /\ mpc = "refresh"
    /\ candidate' \in {sres, candidate}
    /\ over' = TRUE
    /\ mpc' = "join"
    /\ UNCHANGED <<vars, wpc, presented, win, image, callback>>

Join ==
    /\ mpc = "join"
    /\ wpc = "done"
    /\ mpc' = IF presented THEN "exited" ELSE "show"
    /\ UNCHANGED <<vars, candidate, wpc, presented, over, win, image, callback>>

\* present_the_frame prefers the live frame; into_frame's refusal ends it all.
PresentTheFrame ==
    /\ mpc = "show"
    /\ \/ Open(IF Written THEN live ELSE candidate) /\ mpc' = "present"
       \/ ~Written /\ mpc' = "exited" /\ UNCHANGED <<win, image>>
    /\ UNCHANGED <<vars, candidate, wpc, presented, over, callback>>

MainReturns ==
    /\ mpc = "present"
    /\ win = "closed"
    /\ mpc' = "exited"
    /\ UNCHANGED <<vars, candidate, wpc, presented, over, win, image, callback>>

MainThread == RefreshCandidates \/ Join \/ PresentTheFrame \/ MainReturns

-----------------------------------------------------------------------------
(* The rest of S goes on without C, until a batch cannot be shipped.       *)

ProgressThread ==
    \/ TakeRingProgress \/ TakeVenusBlobWrites \/ TakeAppBlobWrites
    \/ ShipApp \/ ShipVenus \/ ShipProgress

OnC == Draw \/ Poll \/ Released \/ DoneReading \/ ForgetReplies \/ Receive

OnS == Dispatch \/ StoreHead \/ GpuWrites \/ ProgressThread

\* ship fails: the progress thread returns.
ShipFails ==
    /\ mpc # "serve"
    /\ ppc \in {"shipApp", "ship", "shipProgress"}
    /\ ppc' = "ended"
    /\ UNCHANGED <<appVars, memVars, s2c, gpuVars, ringVars, forgotten, reported,
                   resShadow, wordShadow, toldReplies, signaled, venus, app,
                   live, windowVars>>

WindowInit ==
    /\ Init
    /\ mpc = "serve" /\ candidate = Blank
    /\ wpc = "first" /\ presented = FALSE /\ over = FALSE
    /\ win = "none" /\ image = Blank /\ callback = FALSE

WindowNext ==
    \/ mpc = "serve" /\ OnC /\ UNCHANGED windowVars
    \/ /\ mpc # "exited"
       /\ \/ OnS /\ UNCHANGED windowVars
          \/ ShipFails
          \/ WindowThread \/ Configure \/ FrameCallback \/ Close
    \/ ServeEnds
    \/ MainThread

\* The threads run, and the compositor, external as it is, configures a window
\* and calls back one that asked.  Nobody has to close the window, and C may
\* stay for ever.
WindowSpec ==
    /\ WindowInit /\ [][WindowNext]_allVars
    /\ WF_allVars(WindowThread /\ mpc # "exited")
    /\ WF_allVars(Configure /\ mpc # "exited")
    /\ WF_allVars(FrameCallback /\ mpc # "exited")
    /\ WF_allVars(MainThread)
    /\ WF_allVars(TakeAppBlobWrites /\ mpc # "exited" /\ UNCHANGED windowVars)

-----------------------------------------------------------------------------
(* Properties.                                                             *)

\* The window shows the newest live frame in the end, unless it is closed or
\* the process ends: whatever look at the frame failed, whoever opened the
\* window, and however the session's end falls between the looks.
WindowCatchesUp ==
    [](Written => <>(\/ win = "up" /\ image = live
                     \/ win = "closed" \/ mpc = "exited"))
=============================================================================
