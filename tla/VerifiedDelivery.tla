--------------------------- MODULE VerifiedDelivery ---------------------------
(***************************************************************************)
(* What one call of Downloader.DownloadFile promises, whatever peers, the  *)
(* tracker, the CDN and the disk do: it starts with peers, it may switch   *)
(* to HTTP once and never back, it reports success only over exactly the   *)
(* requested bytes, and a reported outcome and its file are final.         *)
(***************************************************************************)
CONSTANT Contents          \* what an output file may hold

VARIABLES
  wanted,                  \* the content whose hash was asked for
  content,                 \* what the output file holds
  transport,               \* "p2p" or "http"
  outcome                  \* "running", "complete" or "failed"

vars == <<wanted, content, transport, outcome>>

TypeOK ==
  /\ wanted \in Contents
  /\ content \in Contents
  /\ transport \in {"p2p", "http"}
  /\ outcome \in {"running", "complete", "failed"}

Init ==
  /\ wanted \in Contents
  /\ content \in Contents
  /\ transport = "p2p"
  /\ outcome = "running"

\* The current transport writes to the output file.
Write ==
  /\ outcome = "running"
  /\ content' \in Contents
  /\ UNCHANGED <<wanted, transport, outcome>>

\* Peers are given up for the CDN, whatever they left in the file.
Switch ==
  /\ outcome = "running"
  /\ transport = "p2p"
  /\ transport' = "http"
  /\ content' \in Contents
  /\ UNCHANGED <<wanted, outcome>>

\* Success is reported over the requested content, and only over it.
Deliver ==
  /\ outcome = "running"
  /\ content = wanted
  /\ outcome' = "complete"
  /\ UNCHANGED <<wanted, content, transport>>

\* An error is reported; the file may hold anything.
Abandon ==
  /\ outcome = "running"
  /\ outcome' = "failed"
  /\ content' \in Contents
  /\ UNCHANGED <<wanted, transport>>

Next == Write \/ Switch \/ Deliver \/ Abandon

Spec == Init /\ [][Next]_vars

===============================================================================
