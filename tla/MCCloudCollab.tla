--------------------------- MODULE MCCloudCollab ---------------------------
\* Instances of CloudCollab for TLC; the .cfg files give the constants.
EXTENDS CloudCollab
=============================================================================
