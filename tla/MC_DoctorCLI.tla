----------------------------- MODULE MC_DoctorCLI -----------------------------
(* Two profile urls, one saved as an HTML file; ./doctor_urls.txt holds the other. *)
EXTENDS DoctorCLI

MCUrls == {"https://nord.ro/medici/ana-pop/", "https://nord.ro/medici/ion-pop/"}

MCInputs == MCUrls \cup {"nord.ro/medici/ana-pop"}

MCStems == {"https://nord.ro/medici/ana-pop/"}

MCCwdFile == {"https://nord.ro/medici/ion-pop/"}

=============================================================================
