------------------------------ MODULE MCApproval ------------------------------
(* The approval service on one request; the threads that serve the REST  *)
(* endpoints come from FastAPI's pool and run no event loop.              *)
EXTENDS ApprovalWorkflow
=============================================================================
