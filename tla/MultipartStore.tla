--------------------------- MODULE MultipartStore ---------------------------
(***************************************************************************)
(* The storage provider as FileGuardian's S3 adapter uses it (storage.go): *)
(* multipart uploads that are created, receive parts, and end completed or *)
(* aborted.  The service behind the adapter is external; what is taken     *)
(* from it is that a multipart upload that has ended accepts no call, and  *)
(* that one is not completed from parts it does not hold.                  *)
(*                                                                         *)
(* A worker creates at most one multipart upload, so the upload that run r *)
(* created for file f is named by r and f: mpu[r][f].                      *)
(***************************************************************************)
EXTENDS FiniteSets

CONSTANTS
  Files,   \* the files of the process
  Parts,   \* the part numbers of a file: every file has the same
  Runs     \* the calls of UploadFile, UploadFolder and ResumeProcess

VARIABLE mpu

MpuState == [state : {"none", "open", "completed", "aborted"},
             parts : SUBSET Parts]

MpuInit == mpu = [r \in Runs |-> [f \in Files |-> [state |-> "none", parts |-> {}]]]

Created(r, f) == mpu[r][f].state # "none"
Open(r, f)    == mpu[r][f].state = "open"

\* CreateMultipartUpload: a multipart upload that did not exist before.
CreateMpu(r, f) == /\ ~Created(r, f)
                   /\ mpu' = [mpu EXCEPT ![r][f].state = "open"]

\* UploadPart for an open multipart upload.
StorePart(r, f, p) == /\ Open(r, f)
                      /\ mpu' = [mpu EXCEPT ![r][f].parts = @ \cup {p}]

\* CompleteMultipartUpload with the parts the caller lists.
CanComplete(r, f, parts) == /\ Open(r, f)
                            /\ parts # {}
                            /\ parts \subseteq mpu[r][f].parts
CompleteMpu(r, f) == mpu' = [mpu EXCEPT ![r][f].state = "completed"]

\* AbortMultipartUpload: the parts are dropped, the record of what they were is
\* kept for the properties.  Aborting an upload that has ended is an error.
AbortMpu(r, f) == /\ Open(r, f)
                  /\ mpu' = [mpu EXCEPT ![r][f].state = "aborted"]

=============================================================================
