------------------------------ MODULE S3Bucket ------------------------------
(***************************************************************************)
(* The BlobStorage CR on AWS: CreateStorage and DeleteStorage of           *)
(* pkg/providers/aws/provider_blobstorage.go over one bucket, and the      *)
(* credentials of its owner, which the OpenShift credential minter makes   *)
(* on a CredentialsRequest (pkg/providers/aws/credentials.go; with STS     *)
(* there are none).  Of the bucket, inst.prot says that public access is   *)
(* blocked and encryption on, inst.full that it holds objects; sec is the  *)
(* minted key.                                                             *)
(***************************************************************************)
EXTENDS Reconciler

OnS3(l) == prov \in S3Provs /\ pc = l

\* ListBuckets, polled, and the search by name.
GetS3Buckets ==
  /\ OnS3("get")
  /\ pc' = "decide"
  /\ loc' = [loc EXCEPT !.seen = View]
  /\ NotCR /\ UNCHANGED world

\* Seeded fault: only a new bucket is given its settings.
BucketFound_KeepsSettings ==
  /\ OnS3("decide")
  /\ loc.seen.state # "absent"
  /\ Branch("credreq")

\* Seeded fault: a bucket that the CR does not name is not adopted.
BucketFound_OnlyAnnotated ==
  /\ OnS3("decide")
  /\ loc.seen.state # "absent"
  /\ Branch(IF loc.anno THEN "settings" ELSE "failed")

BucketFound ==
  /\ OnS3("decide")
  /\ loc.seen.state # "absent"
  /\ Branch("settings")

\* The CR says that a bucket was provisioned, but there is none.
BucketLost ==
  /\ OnS3("decide")
  /\ loc.seen.state = "absent"
  /\ loc.anno
  /\ Branch("failed")

CreateBucket ==
  /\ OnS3("decide")
  /\ loc.seen.state = "absent"
  /\ ~loc.anno
  /\ inst' = [NoInstance EXCEPT !.state = "available"]
  /\ Reply("annotate_new")
  /\ NotCR /\ UNCHANGED <<sec, objs, result>>

AnnotateBucket ==
  /\ OnS3("annotate_new")
  /\ Store([cr EXCEPT !.anno = TRUE], "settings")

\* PutPublicAccessBlock and PutBucketEncryption; if only the first is done
\* the reconcile fails (CallFails).
ReconcileS3BucketSettings ==
  /\ OnS3("settings")
  /\ \/ /\ inst.state # "absent"
        /\ inst' = [inst EXCEPT !.prot = TRUE]
        /\ Reply(IF prov = "s3_sts" THEN "tag" ELSE "credreq")
     \/ inst.state = "absent" /\ Goto("failed") /\ UNCHANGED inst
  /\ NotCR /\ UNCHANGED <<sec, objs, result>>

ReconcileCredentialRequest ==
  /\ OnS3("credreq")
  /\ objs' = objs \cup {"credreq"}
  /\ Reply("keys")
  /\ NotCR /\ UNCHANGED <<inst, sec, result>>

\* Waits until the minter has provisioned the key, or times out (CallFails).
ReconcileAWSCredentials ==
  /\ OnS3("keys")
  /\ sec # NoPassword
  /\ pc' = "tag" /\ loc' = [loc EXCEPT !.pass = sec]
  /\ NotCR /\ UNCHANGED world

TagBlobStorage ==
  /\ OnS3("tag")
  /\ Branch(IF inst.state # "absent" THEN "publish" ELSE "failed")
----------------------------------------------------------------------------
(* DeleteStorage.                                                          *)

GetBucketForDelete ==
  /\ OnS3("d_get")
  /\ pc' = IF inst.state = "absent" THEN "d_creds" ELSE "d_size"
  /\ loc' = [loc EXCEPT !.seen = View]
  /\ NotCR /\ UNCHANGED world

\* The size decides whether the bucket goes or is kept.
GetBucketSize ==
  /\ OnS3("d_size")
  /\ Branch(CASE inst.state = "absent" -> "failed"
              [] inst.state # "absent" /\ (prov = "s3_force" \/ ~inst.full) -> "d_empty"
              [] OTHER -> "d_creds")

\* Lists the objects once more and deletes those it finds.
EmptyBucket ==
  /\ OnS3("d_empty")
  /\ \/ /\ inst.state # "absent"
        /\ inst' = [inst EXCEPT !.full = FALSE]
        /\ Reply("d_bucket")
     \/ inst.state = "absent" /\ Goto("failed") /\ UNCHANGED inst
  /\ NotCR /\ UNCHANGED <<sec, objs, result>>

\* "No such bucket" is taken for success; S3 keeps a bucket with objects.
DeleteBucket ==
  /\ OnS3("d_bucket")
  /\ IF inst.full
     THEN Goto("failed") /\ UNCHANGED inst
     ELSE Reply("d_creds") /\ inst' = NoInstance
  /\ NotCR /\ UNCHANGED <<sec, objs, result>>

\* Deletes the CredentialsRequest; the minter takes its secret away with it.
RemoveCreds ==
  /\ OnS3("d_creds")
  /\ objs' = objs \ {"credreq"}
  /\ sec' = NoPassword
  /\ Reply("d_fin")
  /\ NotCR /\ UNCHANGED <<inst, result>>

S3Worker ==
  \/ GetS3Buckets \/ BucketFound \/ BucketLost \/ CreateBucket \/ AnnotateBucket
  \/ ReconcileS3BucketSettings \/ ReconcileCredentialRequest
  \/ ReconcileAWSCredentials \/ TagBlobStorage
  \/ GetBucketForDelete \/ GetBucketSize \/ EmptyBucket \/ DeleteBucket \/ RemoveCreds
----------------------------------------------------------------------------
(* The minter and the user of the bucket.                                  *)

MintKey ==
  /\ "credreq" \in objs
  /\ sec = NoPassword
  /\ prov \in S3Provs
  /\ sec' \in Passwords
  /\ UNCHANGED <<prov, cr, fresh, worker, inst, objs, result, calm>>

PutObject ==
  /\ ~calm
  /\ prov \in S3Provs
  /\ inst.state = "available" /\ ~inst.full
  /\ cr.life # "gone"
  /\ inst' = [inst EXCEPT !.full = TRUE]
  /\ UNCHANGED <<prov, cr, fresh, worker, sec, objs, result, calm>>
============================================================================
