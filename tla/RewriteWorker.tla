--------------------------- MODULE RewriteWorker ---------------------------
(***************************************************************************)
(* The cleanup worker process, src/workers/rewrite/main.cpp: a single      *)
(* thread that loads a model and then answers one request after the other. *)
(* The language model is external: it cleans a text without dropping any   *)
(* session's words, or fails.  A failure carries the command's id, which   *)
(* the controller made equal to the request's.                             *)
(***************************************************************************)
EXTENDS WorkerProcess

VARIABLE loaded   \* whether rewriter_ holds a model

RewriteAlive == proc["rewrite"] = "alive"

EmitRewrite(event) ==
  /\ stdout' = [stdout EXCEPT !["rewrite"] = Append(@, event)]
  /\ UNCHANGED <<running, reader, device>>

RewriteLoadModel ==
  /\ RewriteAlive
  /\ ~loaded
  /\ loaded' = TRUE
  /\ EmitRewrite(RewriteMessage("ready", NoRequest, {}))
  /\ UNCHANGED <<proc, stdin>>

RewriteLoadFails ==
  /\ "rewrite_load" \in Faults
  /\ RewriteAlive
  /\ ~loaded
  /\ Exit("rewrite")
  /\ EmitRewrite(RewriteFailure("MODEL_LOAD_FAILED", NoRequest))
  /\ UNCHANGED loaded

ReadRequest ==
  /\ RewriteAlive
  /\ loaded
  /\ stdin["rewrite"] # <<>>
  /\ Head(stdin["rewrite"]).type = "rewrite"
  /\ stdin' = [stdin EXCEPT !["rewrite"] = Tail(@)]
  /\ UNCHANGED <<proc, loaded>>

RewriteAnswer ==
  /\ ReadRequest
  /\ LET request == Head(stdin["rewrite"])
     IN EmitRewrite(RewriteMessage("rewrite_completed", request.request, request.text))

RewriteAnswerFails ==
  /\ "rewrite_answer" \in Faults
  /\ ReadRequest
  /\ EmitRewrite(RewriteFailure("REWRITE_FAILED", Head(stdin["rewrite"]).request))

RewriteQuit ==
  /\ loaded
  /\ Exit("rewrite")
  /\ \/ stdin["rewrite"] # <<>> /\ Head(stdin["rewrite"]).type = "shutdown"
     \/ InputClosed("rewrite")
  /\ UNCHANGED <<running, stdout, reader, device, loaded>>

RewriteWorkerStep ==
  \/ RewriteLoadModel \/ RewriteLoadFails
  \/ RewriteAnswer \/ RewriteAnswerFails \/ RewriteQuit
=============================================================================
