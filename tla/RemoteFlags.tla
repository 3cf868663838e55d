----------------------------- MODULE RemoteFlags -----------------------------
(***************************************************************************)
(* FeatureFlags: the file of flags in S3, the copy of it that @Cache keeps *)
(* for 120 seconds, and the map that getFeatureFlag looks in, which        *)
(* featureFlagMiddleware fills for every request.  One pod.                *)
(***************************************************************************)
EXTENDS Integers

CONSTANTS
    File,             \* the files that may be in S3: sets of enabled flags
    NoFile,           \* nothing is cached
    MaxReleases       \* bound: how often the file in S3 is replaced

VARIABLES
    s3,               \* the file in S3
    cached,           \* what @Cache holds of it
    featureFlags,     \* the enabled flags of the singleton
    releases          \* how often the file has been replaced

flagVars == <<s3, cached, featureFlags, releases>>

ASSUME FlagsAssumption ==
    /\ \A f \in File : f \subseteq {"readOnly", "resetProfile", "supportNeeds"}
    /\ NoFile \notin File
    /\ MaxReleases \in Nat

FlagsTypeOK ==
    /\ s3 \in File
    /\ cached \in File \cup {NoFile}
    /\ featureFlags \in File
    /\ releases \in 0..MaxReleases

(* The pod has served requests before. *)
FlagsInit ==
    /\ s3 \in File
    /\ cached = NoFile
    /\ featureFlags = s3
    /\ releases = 0

(* initialize with a cached file. *)
UseCached ==
    /\ cached # NoFile
    /\ featureFlags' = cached
    /\ UNCHANGED <<s3, cached, releases>>

(* Mutant of UseFetched: the map is filled from the cache of before. *)
UseFetchedBefore(file) ==
    /\ cached' = file
    /\ featureFlags' = cached
    /\ UNCHANGED <<s3, releases>>

(* initialize with the file that fetchFeatureFlagsFromS3 has read, some    *)
(* time ago by now.  Nothing joins fetches that run at the same time.      *)
UseFetched(file) ==
    /\ cached' = file
    /\ featureFlags' = file
    /\ UNCHANGED <<s3, releases>>

(* The 120 seconds are over. *)
ExpireFlags ==
    /\ cached # NoFile
    /\ cached' = NoFile
    /\ UNCHANGED <<s3, featureFlags, releases>>

(* Someone replaces the file. *)
ReleaseFlags ==
    /\ releases < MaxReleases
    /\ s3' \in File \ {s3}
    /\ releases' = releases + 1
    /\ UNCHANGED <<cached, featureFlags>>
=============================================================================
