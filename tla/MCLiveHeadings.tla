-------------------------- MODULE MCLiveHeadings --------------------------
\* Instances of LiveHeadings for TLC; the .cfg files give the constants.
EXTENDS LiveHeadings, TLC

CONSTANTS h1, h2

EmptyParagraph == Paragraph("")

\* "Notes" and "Notes 2": the slug of the second is the numbered slug of the first.
NumberedSlugs == h1 :> <<1>> @@ h2 :> <<1, 2>>
=============================================================================
