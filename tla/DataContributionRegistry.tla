---------------------- MODULE DataContributionRegistry ----------------------
(***************************************************************************)
(* contracts/DataContributionRegistry.sol: records of contributions, alone *)
(* or in batches of one run, verified or rejected, and claimed.            *)
(***************************************************************************)
EXTENDS Integers, Sequences, FiniteSets, SequencesExt, Counting

CONSTANTS
  RecordModels, Contributors, Hashes,
  Earnings,               \* tokensEarned
  MaxContributions        \* bound

ASSUME ContributionConstants ==
  IsFiniteSet(RecordModels) /\ Earnings \subseteq Nat /\ MaxContributions \in Nat

VARIABLES
  contributions,          \* the record of each id; nextContributionId is the next one
  modelContributions, contributorRecords, hashToContribution,
  contributorTotalTokens, contributorGlobalTokens

contributionVars == <<contributions, modelContributions, contributorRecords,
                      hashToContribution, contributorTotalTokens, contributorGlobalTokens>>

ContributionInit ==
  /\ contributions = <<>>
  /\ modelContributions = [m \in RecordModels |-> <<>>]
  /\ contributorRecords = [c \in Contributors |-> <<>>]
  /\ hashToContribution = [h \in Hashes |-> 0]
  /\ contributorTotalTokens = [m \in RecordModels |-> [c \in Contributors |-> 0]]
  /\ contributorGlobalTokens = [c \in Contributors |-> 0]

Record(m, c, h, earned) ==
  [model |-> m, contributor |-> c, hash |-> h, earned |-> earned, status |-> "Pending"]

Increasing(ids) == \A i, j \in DOMAIN ids : i < j => ids[i] < ids[j]

\* The ids of some records of a batch, in order.
Pushed(ids, which) ==
  ids \o (CHOOSE new \in SetToSeqs({Len(contributions) + i : i \in which}) : Increasing(new))

EarnedIn(records, which) == SumOf([i \in DOMAIN records |-> records[i].earned], which)

Of(records, m, c) ==
  {i \in DOMAIN records : records[i].model = m /\ records[i].contributor = c}

\* Mutant: the first record of a hash keeps it.
FirstKeepsHash(records) ==
  [h \in Hashes |->
     LET ids == {i \in DOMAIN records : records[i].hash = h}
     IN IF ids = {} \/ hashToContribution[h] # 0 THEN hashToContribution[h]
        ELSE Len(contributions) + (CHOOSE i \in ids : \A j \in ids : j <= i)]

\* A hash points to the last record that has it.
HashIndex(records) ==
  [h \in Hashes |->
     LET ids == {i \in DOMAIN records : records[i].hash = h}
     IN IF ids = {} THEN hashToContribution[h]
        ELSE Len(contributions) + (CHOOSE i \in ids : \A j \in ids : j <= i)]

Totals(records) ==
  [m \in RecordModels |-> [c \in Contributors |->
     contributorTotalTokens[m][c]
     + EarnedIn(records, Of(records, m, c))]]

\* recordContribution, recordContributionBatch
RecordContributions(records) ==
  /\ Len(contributions) + Len(records) <= MaxContributions
  /\ contributions' = contributions \o records
  /\ modelContributions' =
       [m \in RecordModels |-> Pushed(modelContributions[m],
                                     {i \in DOMAIN records : records[i].model = m})]
  /\ contributorRecords' =
       [c \in Contributors |-> Pushed(contributorRecords[c],
                                     {i \in DOMAIN records : records[i].contributor = c})]
  /\ hashToContribution' = HashIndex(records)
  /\ contributorTotalTokens' = Totals(records)
  /\ contributorGlobalTokens' =
       [c \in Contributors |-> contributorGlobalTokens[c]
                               + EarnedIn(records, {i \in DOMAIN records : records[i].contributor = c})]

Become(id, from, to) ==
  /\ contributions[id].status = from
  /\ contributions' = [contributions EXCEPT ![id].status = to]
  /\ UNCHANGED <<modelContributions, contributorRecords, hashToContribution,
                 contributorTotalTokens, contributorGlobalTokens>>

VerifyContribution(id) == Become(id, "Pending", "Verified")
RejectContribution(id) == Become(id, "Pending", "Rejected")

\* By the contributor of the record; no tokens move.
ClaimContribution(id) == Become(id, "Verified", "Claimed")

ContributionNext ==
  \/ \E m \in RecordModels, c \in Contributors, h \in Hashes, e \in Earnings :
       RecordContributions(<<Record(m, c, h, e)>>)
  \/ \E m \in RecordModels, c, d \in Contributors, h, i \in Hashes, e, f \in Earnings :
       RecordContributions(<<Record(m, c, h, e), Record(m, d, i, f)>>)
  \/ \E id \in DOMAIN contributions :
       VerifyContribution(id) \/ RejectContribution(id) \/ ClaimContribution(id)

ContributionSpec == ContributionInit /\ [][ContributionNext]_contributionVars

-----------------------------------------------------------------------------

\* The totals count every record, the rejected ones too, and per model they add
\* up to a contributor's own.
TotalsCountRecords ==
  \A c \in Contributors :
    /\ \A m \in RecordModels :
         contributorTotalTokens[m][c]
           = EarnedIn(contributions, Of(contributions, m, c))
    /\ contributorGlobalTokens[c]
         = SumOf([m \in RecordModels |-> contributorTotalTokens[m][c]], RecordModels)

\* A hash leads to the last record made with it: earlier ones, of another
\* contributor or model too, are no longer found by their hash.
HashFindsLastRecord ==
  \A h \in Hashes :
    LET ids == {i \in DOMAIN contributions : contributions[i].hash = h}
    IN hashToContribution[h] = IF ids = {} THEN 0
                               ELSE CHOOSE i \in ids : \A j \in ids : j <= i

\* Every record is found once by its model and once by its contributor, in order.
IndexesAreComplete ==
  /\ \A m \in RecordModels :
       /\ Increasing(modelContributions[m])
       /\ Range(modelContributions[m])
            = {i \in DOMAIN contributions : contributions[i].model = m}
  /\ \A c \in Contributors :
       /\ Increasing(contributorRecords[c])
       /\ Range(contributorRecords[c])
            = {i \in DOMAIN contributions : contributions[i].contributor = c}

\* A claim is the end of a record that was verified, a rejection the end of one
\* that was not: whatever the verifier and the contributor do meanwhile.
StatusMovesForward ==
  \A id \in DOMAIN contributions :
    LET was == contributions[id].status
        is == contributions'[id].status
    IN was # is => <<was, is>> \in {<<"Pending", "Verified">>, <<"Pending", "Rejected">>,
                                    <<"Verified", "Claimed">>}

\* Totals, hashes and indexes lead to every record.
RecordsSound == TotalsCountRecords /\ HashFindsLastRecord /\ IndexesAreComplete

=============================================================================
