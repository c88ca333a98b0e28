----------------------------- MODULE MCUsbLink -----------------------------
EXTENDS UsbLink
=============================================================================
