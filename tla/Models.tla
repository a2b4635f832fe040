------------------------------- MODULE Models -------------------------------
(***************************************************************************)
(* The server as a client of the model servers, in one specification: the  *)
(* calls of the generator and of single embeddings (Generator), and the    *)
(* embeddings of the rows (Embedding).  They share no state beyond the     *)
(* servers, which each of them takes as it finds, so a behaviour has one   *)
(* of them at work.                                                        *)
(***************************************************************************)
EXTENDS Generator

CONSTANTS MaxId, Batch, SyncBatch, SsdBatch, Skipped, Blank, MaxFailures

VARIABLES
    part,
    last, twin, emb, ssd, vec, dim, inline, loop, mlxAvailable, streak, serving, model, failures

embedVars == <<last, twin, emb, ssd, vec, dim, inline, loop, mlxAvailable, streak, serving, model, failures>>
all == <<part, vars, embedVars>>

Embed == INSTANCE Embedding WITH MaxTroubles <- MaxFailures, troubles <- failures

ASSUME ModelsAssumption == Embed!EmbeddingAssumption

\* While the calls are at work nothing of the rows is, the embed loop included:
\* what is fair of the one part cannot be done in the other.
PartInit ==
    /\ Init
    /\ \/ part = "rows" /\ Embed!Init
       \/ /\ part = "calls" /\ loop = Embed!Hung
          /\ last = 0 /\ twin = [i \in Embed!Ids |-> 0] /\ emb = <<>> /\ ssd = <<>>
          /\ vec = Embed!Nothing /\ dim = "old" /\ inline = <<>>
          /\ mlxAvailable = FALSE /\ streak = 0 /\ serving = TRUE /\ model = "old"
          /\ failures = 0

PartNext ==
    /\ UNCHANGED part
    /\ \/ part = "calls" /\ Next /\ UNCHANGED embedVars
       \/ part = "rows" /\ Embed!Next /\ UNCHANGED vars

PartSpec == PartInit /\ [][PartNext]_all /\ Fairness /\ Embed!EmbedFairness

OwnVector      == Embed!OwnVector
BacklogDrains  == Embed!BacklogDrains
IndexCatchesUp == Embed!IndexCatchesUp
=============================================================================
