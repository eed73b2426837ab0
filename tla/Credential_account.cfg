SPECIFICATION Spec
CONSTANTS
    login = login
    otherLogin = otherLogin
    code = code
    otherCode = otherCode
    export = export
    alpha = alpha
    beta = beta
    Main = Main
    Null = Null
    Logins = {login}
    Codes = {}
    Jars = {}
    Accounts = {alpha, beta}
    MaxFaults = 0
SYMMETRY Symmetry
CHECK_DEADLOCK FALSE
INVARIANT ReconnectKeepsAccount
