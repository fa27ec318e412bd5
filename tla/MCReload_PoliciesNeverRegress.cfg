CONSTANTS
    c1 = c1
    c2 = c2
    a1 = a1
    a2 = a2
    Callbacks <- MCOneCallback
    Apis <- MCApis
    InvalidApis <- MCInvalid
    MaxSourceVersion = 2
    RetryAttempts = 1
    UseRPC = TRUE

SPECIFICATION Spec
PROPERTY PoliciesNeverRegress
