---------------------------- MODULE MCHandlingSync ----------------------------
\* One vehicle and one custom model.
EXTENDS HandlingSync
CONSTANTS car, light
=============================================================================
