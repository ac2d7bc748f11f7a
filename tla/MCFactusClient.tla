--------------------------- MODULE MCFactusClient ---------------------------
EXTENDS FactusClient

CONSTANTS emission, note, download
=============================================================================
