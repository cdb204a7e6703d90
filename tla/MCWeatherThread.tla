-------------------------- MODULE MCWeatherThread --------------------------
EXTENDS WeatherThread
=============================================================================
