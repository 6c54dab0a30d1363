----------------------------- MODULE MCEventLoop -----------------------------
(* Instances of EventLoop for TLC: one restored project with one or two files. *)
EXTENDS EventLoop, TLC

CONSTANTS f, g, app

OneOwner == f :> app @@ g :> app
OnePrefix == f :> {app} @@ g :> {app}

FileOwner == f :> app
FilePrefix == f :> {app}

=============================================================================
