----------------------------- MODULE MCIpcDelivery -----------------------------
EXTENDS IpcDeliveryProps
================================================================================
