----------------------------- MODULE MCIpcElection -----------------------------
EXTENDS IpcElectionProps
================================================================================
