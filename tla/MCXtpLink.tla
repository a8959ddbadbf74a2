----------------------------- MODULE MCXtpLink -----------------------------
EXTENDS XtpLink
============================================================================
