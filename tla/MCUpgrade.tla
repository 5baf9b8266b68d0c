------------------------------- MODULE MCUpgrade -------------------------------
EXTENDS UpgradeProps
================================================================================
