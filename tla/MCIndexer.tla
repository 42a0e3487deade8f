----------------------------- MODULE MCIndexer -----------------------------
(***************************************************************************)
(* Instances of Indexer, over the texts of MCFactStore.                    *)
(***************************************************************************)
EXTENDS MCFactStore, Indexer

\* One commit calls and one does not; both builds know the calls.  The one that
\* calls needs a module that a run may find or not: whenever it is listed, it is
\* indexed or skipped, as a commit with errors always is.
MCBranchTree ==
  [quiet |-> app :> "quiet" @@ svc :> "one",
   calls |-> app :> "direct" @@ svc :> "one"]

MCNeedsModules == {"calls"}

\* Here too selection is sound.
ASSUME BranchSourcesHold == SourcesKeep
=============================================================================
