------------------------------- MODULE Documents -------------------------------
(***************************************************************************)
(* DocumentController: the form to upload a document and its post, over    *)
(* DocumentService.  What a file holds is left out but for whether it is   *)
(* taken.                                                                  *)
(***************************************************************************)
EXTENDS Applications

UploadForm == PageOf("upload-documents", NoParams)

(* viewUploadPage: home if the flag is off.  The post does not ask for it. *)
OpenUploadForm ==
    /\ "document" \in scenario.kinds
    /\ Show(UploadForm) \/ Show(OtherPage)

(* DocumentService.upload: one call, never tried again. *)
Upload == Press(Whole("document"), OtherPage, UploadForm)

(* uploadDocument.  A file that is empty or too large is not sent on; the  *)
(* API refuses other formats and answers that there is a virus.  Each of   *)
(* these leads to the form again, and so does a call that fails, or a file *)
(* that cannot be deleted after it.                                        *)
UploadDocument ==
    /\ screen.view = "upload-documents"
    /\ Show(UploadForm) \/ Upload

DocumentStep == OpenUploadForm \/ UploadDocument
=============================================================================
